---- MODULE Spec2Model ----
(***************************************************************************)
(* go-nuget-server: the local file store (package catalog, archive root,   *)
(* download counter table, feed pagination, access levels) and the request *)
(* handler that routes to it.                                              *)
(*                                                                         *)
(* Strings are sequences of byte values (ASCII codes), so that Go's string *)
(* comparison, strings.ToLower, strings.EqualFold, strings.Split and the   *)
(* "%d" scan are computed on the characters as the code computes them.     *)
(***************************************************************************)
EXTENDS Integers, Sequences, FiniteSets, TLC

(***************************************************************************)
(* Bounds of the model.                                                    *)
(***************************************************************************)
\* archives that may be written under the archive root
MaxArchives == 2
\* cap of one download counter
MaxCount == 1
\* file modification times run over 0..MaxTime (seconds)
MaxTime == 1
\* the feed query's max argument runs over -1 and 0..MaxResults
MaxResults == 2

(***************************************************************************)
(* Strings.                                                                *)
(***************************************************************************)
\* "." "/" "+" "-" " " as one-character strings
Dot == <<46>>
Slash == <<47>>
\* "nupkg/"
NupkgSlash == <<110, 117, 112, 107, 103, 47>>
\* "content"
ContentName == <<99, 111, 110, 116, 101, 110, 116>>
\* "" (the empty string)
Empty == <<>>

\* "already exists"
AlreadyExistsText ==
    <<97, 108, 114, 101, 97, 100, 121, 32, 101, 120, 105, 115, 116, 115>>

\* strings.Contains(s, sub)
HasSubstring(s, sub) ==
    \E i \in 0..(Len(s) - Len(sub)) : SubSeq(s, i + 1, i + Len(sub)) = sub

IsDigit(c) == c >= 48 /\ c <= 57
IsUpper(c) == c >= 65 /\ c <= 90
IsSpace(c) == c = 32 \/ c = 9

\* Go's < on strings: bytewise lexicographic order
RECURSIVE StrLess(_, _)
StrLess(s, t) ==
    IF t = <<>> THEN FALSE
    ELSE IF s = <<>> THEN TRUE
    ELSE IF Head(s) # Head(t) THEN Head(s) < Head(t)
    ELSE StrLess(Tail(s), Tail(t))

\* strings.ToLower on ASCII
ToLower(s) == [i \in 1..Len(s) |-> IF IsUpper(s[i]) THEN s[i] + 32 ELSE s[i]]

\* strings.EqualFold on ASCII: equal under simple case folding
EqualFold(s, t) ==
    /\ Len(s) = Len(t)
    /\ \A i \in 1..Len(s) :
         (IF IsUpper(s[i]) THEN s[i] + 32 ELSE s[i])
           = (IF IsUpper(t[i]) THEN t[i] + 32 ELSE t[i])

\* strings.Split(v, "."): the components between the dots (at least one)
RECURSIVE SplitDot(_, _)
SplitDot(v, cur) ==
    IF v = <<>> THEN <<cur>>
    ELSE IF Head(v) = 46 THEN <<cur>> \o SplitDot(Tail(v), <<>>)
    ELSE SplitDot(Tail(v), Append(cur, Head(v)))

\* the value of a run of leading decimal digits, and how many there are
RECURSIVE DigitRun(_, _, _)
DigitRun(s, acc, n) ==
    IF s # <<>> /\ IsDigit(Head(s))
    THEN DigitRun(Tail(s), acc * 10 + (Head(s) - 48), n + 1)
    ELSE [value |-> acc, digits |-> n]

RECURSIVE SkipSpace(_)
SkipSpace(s) == IF s # <<>> /\ IsSpace(Head(s)) THEN SkipSpace(Tail(s)) ELSE s

\* n := 0; fmt.Sscanf(p, "%d", &n): leading blanks are skipped, one sign is
\* accepted, then the digits; with no digit the scan fails and n stays 0
Sscanf(p) ==
    LET s == SkipSpace(p)
        neg == s # <<>> /\ Head(s) = 45
        signed == s # <<>> /\ (Head(s) = 45 \/ Head(s) = 43)
        r == DigitRun(IF signed THEN Tail(s) ELSE s, 0, 0)
    IN  IF r.digits = 0 THEN 0 ELSE IF neg THEN 0 - r.value ELSE r.value

\* the parse closure of compareVersions
ParseVersion(v) ==
    LET parts == SplitDot(v, <<>>)
    IN  [i \in 1..Len(parts) |-> Sscanf(parts[i])]

RECURSIVE CompareFrom(_, _, _, _)
CompareFrom(a, b, i, maxLen) ==
    IF i > maxLen THEN 0
    ELSE LET x == IF i <= Len(a) THEN a[i] ELSE 0
             y == IF i <= Len(b) THEN b[i] ELSE 0
         IN  IF x < y THEN -1
             ELSE IF x > y THEN 1
             ELSE CompareFrom(a, b, i + 1, maxLen)

compareVersions(v1, v2) ==
    LET a == ParseVersion(v1)
        b == ParseVersion(v2)
        maxLen == IF Len(b) > Len(a) THEN Len(b) ELSE Len(a)
    IN  CompareFrom(a, b, 1, maxLen)

(***************************************************************************)
(* The inputs: package ids, versions, uploads, API keys.                   *)
(***************************************************************************)
\* "a" and "A": one package id in two spellings
IdLowerA == <<97>>
IdUpperA == <<65>>
PackageIDs == {IdLowerA, IdUpperA}
\* "1.9", "1.10", "1.9.0": 1.10 is numerically the greatest and as a string
\* the least; 1.9 and 1.9.0 are numerically equal
V1_9 == <<49, 46, 57>>
V1_10 == <<49, 46, 49, 48>>
V1_9_0 == <<49, 46, 57, 46, 48>>
Versions == {V1_9, V1_10, V1_9_0}

\* An upload is the raw bytes of an archive: a zip container (or not), a root
\* .nuspec manifest (or none) naming id and version, and payload files under
\* content/ (or none).
\* bytes that are no zip container, and a zip container without a manifest
NoBytes ==
    [zip |-> FALSE, nuspec |-> FALSE, ID |-> Empty, Version |-> Empty,
     payload |-> FALSE]
NoManifest ==
    [zip |-> TRUE, nuspec |-> FALSE, ID |-> Empty, Version |-> Empty,
     payload |-> FALSE]
\* the uploads: every id and version without payload files, version 1.9 also
\* with payload files, version 1.10 of "a" with payload files, and the two
\* malformed ones
Uploads ==
    [zip : {TRUE}, nuspec : {TRUE}, ID : PackageIDs, Version : Versions,
     payload : {FALSE}]
    \cup [zip : {TRUE}, nuspec : {TRUE}, ID : PackageIDs, Version : {V1_9},
          payload : {TRUE}]
    \cup {[zip |-> TRUE, nuspec |-> TRUE, ID |-> IdLowerA, Version |-> V1_10,
           payload |-> TRUE]}
    \cup {NoBytes, NoManifest}

\* the I/O step of StorePackage that fails, if any: creating the directory,
\* writing the archive, writing a payload file in LoadPackage, writing a
\* payload file in StorePackage
StoreFailures == {"none", "mkdir", "write", "load", "extract"}

\* "R", "W", "X" and the empty key (no X-NuGet-ApiKey header)
KeyR == <<82>>
KeyW == <<87>>
KeyX == <<88>>
PresentedKeys == {Empty, KeyR, KeyW, KeyX}
\* the APIKeys configurations: nothing configured, only read-write keys, only
\* read-only keys, both, and a key that is in both lists
Configs ==
    {[ReadOnly |-> <<>>, ReadWrite |-> <<>>],
     [ReadOnly |-> <<>>, ReadWrite |-> <<KeyW>>],
     [ReadOnly |-> <<KeyR>>, ReadWrite |-> <<>>],
     [ReadOnly |-> <<KeyR>>, ReadWrite |-> <<KeyW>>],
     [ReadOnly |-> <<KeyR, KeyW>>, ReadWrite |-> <<KeyW, KeyX>>]}

(***************************************************************************)
(* Package entries and the catalog (fs.packages).                          *)
(***************************************************************************)
\* NugetPackageEntry.Filename(): id.version
Filename(p) == p.ID \o Dot \o p.Version

\* fmt.Sprintf("%s/%s", id, version): the key of the counter table, and the
\* id/version token of the feed cursor
Key(id, ver) == id \o Slash \o ver

\* NewNugetPackageEntry(nsf): the entry of a manifest, counts at zero and
\* latest flags unset
NewNugetPackageEntry(nsf) ==
    [ID |-> nsf.ID, Version |-> nsf.Version, Src |-> Empty, Published |-> 0,
     Hash |-> NoBytes, IsLatestVersion |-> FALSE,
     IsAbsoluteLatestVersion |-> FALSE, VersionDownloadCount |-> 0,
     DownloadCount |-> 0]

\* x := NugetPackageEntry{}: the zero entry appended before the shift
ZeroEntry ==
    [ID |-> Empty, Version |-> Empty, Src |-> Empty, Published |-> 0,
     Hash |-> NoBytes, IsLatestVersion |-> FALSE,
     IsAbsoluteLatestVersion |-> FALSE, VersionDownloadCount |-> 0,
     DownloadCount |-> 0]

\* m[k] = v on a Go map
MapPut(m, k, v) == [y \in DOMAIN m \cup {k} |-> IF y = k THEN v ELSE m[y]]

\* first pass of RecalculateLatestVersions: the highest version per exact ID
RECURSIVE LatestVersions(_, _, _)
LatestVersions(pkgs, i, latest) ==
    IF i > Len(pkgs) THEN latest
    ELSE LET p == pkgs[i]
         IN  IF \/ p.ID \notin DOMAIN latest
                \/ compareVersions(p.Version, latest[p.ID]) > 0
             THEN LatestVersions(pkgs, i + 1, MapPut(latest, p.ID, p.Version))
             ELSE LatestVersions(pkgs, i + 1, latest)

\* the mutants of IsLatestIn compare version strings, or flag only the very
\* version string that was recorded
IsLatestIn_lexicographic(version, latestVersion) ==
    ~StrLess(version, latestVersion)

IsLatestIn_sameString(version, latestVersion) == version = latestVersion

\* second pass: isLatest := compareVersions(p.Version, latestVersion) == 0
IsLatestIn(version, latestVersion) ==
    compareVersions(version, latestVersion) = 0

RecalculateLatestVersions(pkgs) ==
    LET latestVersions == LatestVersions(pkgs, 1, <<>>)
    IN  [i \in 1..Len(pkgs) |->
           LET isLatest == IsLatestIn(pkgs[i].Version, latestVersions[pkgs[i].ID])
           IN  [pkgs[i] EXCEPT !.IsLatestVersion = isLatest,
                               !.IsAbsoluteLatestVersion = isLatest]]

\* sort.Search(n, f): binary search for the least index in 0..n-1 whose entry's
\* filename is greater than fn, n if there is none
RECURSIVE SortSearch(_, _, _, _)
SortSearch(pkgs, fn, lo, hi) ==
    IF lo >= hi THEN lo
    ELSE LET h == (lo + hi) \div 2
         IN  IF ~StrLess(fn, Filename(pkgs[h + 1]))
             THEN SortSearch(pkgs, fn, h + 1, hi)
             ELSE SortSearch(pkgs, fn, lo, h)

\* the mutant of InsertIndex appends at the end
InsertIndex_append(pkgs, p) == Len(pkgs)

\* index := sort.Search(len(fs.packages), ... Filename() > p.Filename())
InsertIndex(pkgs, p) == SortSearch(pkgs, Filename(p), 0, Len(pkgs))

\* fs.packages = append(fs.packages, &x); copy(fs.packages[index+1:],
\* fs.packages[index:]); fs.packages[index] = p   (index counts from 0)
InsertAt(pkgs, index, p) ==
    LET appended == Append(pkgs, ZeroEntry)
        shifted == [i \in 1..Len(appended) |->
                      IF i > index + 1 THEN appended[i - 1] ELSE appended[i]]
    IN  [shifted EXCEPT ![index + 1] = p]

\* for i, p := range ... { if ... { ...; break } }: the least of the indexes
\* (from 1) that satisfy the test, 0 if there is none
FirstIndex(hits) ==
    IF hits = {} THEN 0 ELSE CHOOSE i \in hits : \A j \in hits : i <= j

\* append(s[:i], s[i+1:]...) for the index i (from 1)
RemoveAt(pkgs, i) ==
    [j \in 1..(Len(pkgs) - 1) |-> IF j < i THEN pkgs[j] ELSE pkgs[j + 1]]


(***************************************************************************)
(* The archive root on disk.  A directory rootDir/<id>/<version> is the    *)
(* pair <<id, version>> of its two names; the archive in it is the file    *)
(* <id>.<version>.nupkg, named after the two directories.                  *)
(***************************************************************************)
\* filepath.Join(fs.rootDir, id, version) and the archive file in it
PackageDir(id, version) == <<id, version>>

\* what os.RemoveAll(filepath.Join(fs.rootDir, "content", fn)) deletes
UnderContent(fn, path) == path[1] = ContentName /\ path[2] = fn

\* the path of a package directory as text, below the root directory
PathText(path) == path[1] \o Slash \o path[2]

\* the mutant of NupkgPath keeps the manifest's letter case
NupkgPath_caseKept(nsf) == PackageDir(nsf.ID, nsf.Version)

\* StorePackage: id := strings.ToLower(nsf.Meta.ID); packageDir, nupkgPath
NupkgPath(nsf) == PackageDir(ToLower(nsf.ID), nsf.Version)

\* the end of LoadPackage, from the catalog `inserted` that holds the new
\* entry: the payload files are written, then the latest flags recalculated
LoadInserted(inserted, contentDirs, nsf, failContent) ==
        IF nsf.payload /\ failContent
        THEN [packages |-> inserted, content |-> contentDirs, recalc |-> FALSE,
              err |-> "failed to write content file"]
        ELSE [packages |-> RecalculateLatestVersions(inserted),
              content |-> IF nsf.payload
                          THEN contentDirs
                                 \cup {PackageDir(ToLower(nsf.ID), nsf.Version)}
                          ELSE contentDirs,
              recalc |-> TRUE,
              err |-> ""]

\* LoadPackage(fp): the catalog, the extracted content directories and the
\* error after loading the archive `file` (its bytes and modification time);
\* `failContent` makes writing a payload file fail
LoadPackage(pkgs, contentDirs, file, failContent) ==
    LET nsf == file.bytes
        fresh == NewNugetPackageEntry(nsf)
        p == [fresh EXCEPT !.Src = NupkgSlash \o Key(nsf.ID, nsf.Version),
                           !.Published = file.mtime,
                           !.Hash = file.bytes]
    IN  IF ~nsf.zip
        THEN [packages |-> pkgs, content |-> contentDirs, recalc |-> FALSE,
              err |-> "failed to extract nupkg"]
        ELSE IF ~nsf.nuspec
        THEN [packages |-> pkgs, content |-> contentDirs, recalc |-> FALSE,
              err |-> "nuspec not found in nupkg"]
        ELSE LoadInserted(InsertAt(pkgs, InsertIndex(pkgs, p), p), contentDirs,
                          nsf, failContent)

\* RemovePackage(fn): the catalog without the first entry named fn
RemovePackage(pkgs, fn) ==
    LET i == FirstIndex({j \in 1..Len(pkgs) : Filename(pkgs[j]) = fn})
    IN  RecalculateLatestVersions(IF i = 0 THEN pkgs ELSE RemoveAt(pkgs, i))

\* the end of StorePackage, from the result `loaded` of fs.LoadPackage on the
\* archive just written: the load error, then the second payload extraction
StoreLoaded(written, pkg, fail, loaded) ==
    LET after == [written EXCEPT !.content = loaded.content]
    IN  IF loaded.err # ""
        THEN [packages |-> loaded.packages, disk |-> after, created |-> FALSE,
              recalc |-> loaded.recalc, err |-> "failed to load package",
              detail |-> PathText(NupkgPath(pkg))]
        ELSE IF pkg.payload /\ fail = "extract"
        THEN [packages |-> loaded.packages, disk |-> after, created |-> FALSE,
              recalc |-> loaded.recalc, err |-> "failed to write file",
              detail |-> PathText(NupkgPath(pkg))]
        ELSE [packages |-> loaded.packages, disk |-> after, created |-> TRUE,
              recalc |-> loaded.recalc, err |-> "", detail |-> Empty]

\* StorePackage(pkg): `disk` is [dirs, files, content]; `fail` names the I/O
\* step that fails and mtime is the modification time the written file gets.
\* The error is the format string that made it (err) and the text put into
\* it (detail): the path of the archive, which the already-exists error
\* names itself and which the *PathError of a failed os call names
StorePackage(pkgs, disk, pkg, fail, mtime) ==
    LET path == NupkgPath(pkg)
        same == [packages |-> pkgs, disk |-> disk, created |-> FALSE,
                 recalc |-> FALSE, err |-> "", detail |-> Empty]
        named == [same EXCEPT !.detail = PathText(path)]
        made == [disk EXCEPT !.dirs = @ \cup {path}]
        file == [bytes |-> pkg, mtime |-> mtime]
        written == [made EXCEPT !.files = MapPut(@, path, file)]
    IN  IF ~pkg.zip THEN [same EXCEPT !.err = "invalid nupkg file"]
        ELSE IF ~pkg.nuspec
        THEN [same EXCEPT !.err = "nuspec file not found in package"]
        ELSE IF path \in DOMAIN disk.files
        THEN [named EXCEPT !.err = "package already exists"]
        ELSE IF fail = "mkdir"
        THEN [named EXCEPT !.err = "failed to create directory"]
        ELSE IF fail = "write"
        THEN [named EXCEPT !.disk = made, !.err = "failed to write nupkg"]
        ELSE StoreLoaded(written, pkg, fail,
                         LoadPackage(pkgs, written.content, file, fail = "load"))

\* of the format strings of StorePackage's errors, the one that holds the
\* words "already exists"
ContainsAlreadyExists(err) == err = "package already exists"

\* strings.Contains(err.Error(), "already exists") in uploadPackage: the
\* words are in the format string or in the text put into it
ErrorContainsAlreadyExists(err, detail) ==
    \/ ContainsAlreadyExists(err)
    \/ err # "" /\ HasSubstring(detail, AlreadyExistsText)

(***************************************************************************)
(* The download counter table (fs.downloadCounts) and its file.            *)
(***************************************************************************)
\* count, ok := fs.downloadCounts[key]; 0 when the key is absent
CountOf(counts, key) == IF key \in DOMAIN counts THEN counts[key] ELSE 0

\* the loops of Init, RefeshPackages and UpdateCountsInMemory: every entry's
\* VersionDownloadCount from the table, under the key of the entry's own ID
UpdateCountsInMemory(pkgs, counts) ==
    [i \in 1..Len(pkgs) |->
       [pkgs[i] EXCEPT !.VersionDownloadCount =
                          CountOf(counts, Key(pkgs[i].ID, pkgs[i].Version))]]

\* the mutant of SumDownloads adds up only the entries of the very id
RECURSIVE SumDownloads_exactID(_, _, _)
SumDownloads_exactID(pkgs, id, i) ==
    IF i > Len(pkgs) THEN 0
    ELSE (IF pkgs[i].ID = id THEN pkgs[i].VersionDownloadCount ELSE 0)
           + SumDownloads_exactID(pkgs, id, i + 1)

\* GetPackageEntry(id, ver): the last entry whose ID equals id ignoring case
\* and whose Version is ver (0: not found), and the catalog with that
\* entry's DownloadCount set to the sum over the entries of that id
RECURSIVE SumDownloads(_, _, _)
SumDownloads(pkgs, id, i) ==
    IF i > Len(pkgs) THEN 0
    ELSE (IF EqualFold(pkgs[i].ID, id) THEN pkgs[i].VersionDownloadCount ELSE 0)
           + SumDownloads(pkgs, id, i + 1)

\* the mutant of GetPackageEntry matches the id letter for letter
GetPackageEntry_exactID(pkgs, id, ver) ==
    LET hits == {i \in 1..Len(pkgs) : pkgs[i].ID = id /\ pkgs[i].Version = ver}
        match == IF hits = {} THEN 0
                 ELSE CHOOSE i \in hits : \A j \in hits : j <= i
    IN  IF match = 0
        THEN [packages |-> pkgs, match |-> 0, err |-> "package not found"]
        ELSE [packages |-> [pkgs EXCEPT ![match].DownloadCount =
                                           SumDownloads(pkgs, id, 1)],
              match |-> match, err |-> ""]

GetPackageEntry(pkgs, id, ver) ==
    LET hits == {i \in 1..Len(pkgs) :
                   EqualFold(pkgs[i].ID, id) /\ pkgs[i].Version = ver}
        match == IF hits = {} THEN 0
                 ELSE CHOOSE i \in hits : \A j \in hits : j <= i
        totalDownloads == SumDownloads(pkgs, id, 1)
    IN  IF match = 0
        THEN [packages |-> pkgs, match |-> 0, err |-> "package not found"]
        ELSE [packages |-> [pkgs EXCEPT ![match].DownloadCount = totalDownloads],
              match |-> match, err |-> ""]

\* the mutant of GetPackageFile shows the count on every entry of the id
GetPackageFile_anyVersion(pkgs, counts, files, id, ver) ==
    LET path == PackageDir(id, ver)
        key == Key(id, ver)
        bumped == MapPut(counts, key, CountOf(counts, key) + 1)
    IN  IF path \notin DOMAIN files
        THEN [packages |-> pkgs, counts |-> counts, content |-> NoBytes,
              err |-> "file not found"]
        ELSE [packages |->
                [i \in 1..Len(pkgs) |->
                   IF EqualFold(pkgs[i].ID, id)
                   THEN [pkgs[i] EXCEPT !.VersionDownloadCount = bumped[key]]
                   ELSE pkgs[i]],
              counts |-> bumped, content |-> files[path].bytes, err |-> ""]

\* GetPackageFile(id, ver): the archive is read at rootDir/id/ver with the id as
\* given; on success the counter of id/ver goes up by one, the table is saved
\* and the first entry matching id (ignoring case) and ver shows the count
GetPackageFile(pkgs, counts, files, id, ver) ==
    LET path == PackageDir(id, ver)
        key == Key(id, ver)
        bumped == MapPut(counts, key, CountOf(counts, key) + 1)
        i == FirstIndex({j \in 1..Len(pkgs) :
                           EqualFold(pkgs[j].ID, id) /\ pkgs[j].Version = ver})
    IN  IF path \notin DOMAIN files
        THEN [packages |-> pkgs, counts |-> counts, content |-> NoBytes,
              err |-> "file not found"]
        ELSE [packages |-> IF i = 0 THEN pkgs
                           ELSE [pkgs EXCEPT ![i].VersionDownloadCount =
                                               bumped[key]],
              counts |-> bumped, content |-> files[path].bytes, err |-> ""]


(***************************************************************************)
(* GetPackageFeedEntries.                                                  *)
(***************************************************************************)
\* downloadTotals[p.ID] += count, for the entries whose key is in the table
RECURSIVE DownloadTotals(_, _, _, _)
DownloadTotals(pkgs, counts, i, totals) ==
    IF i > Len(pkgs) THEN totals
    ELSE LET p == pkgs[i]
             key == Key(p.ID, p.Version)
         IN  IF key \in DOMAIN counts
             THEN DownloadTotals(pkgs, counts, i + 1,
                                 MapPut(totals, p.ID,
                                        CountOf(totals, p.ID) + counts[key]))
             ELSE DownloadTotals(pkgs, counts, i + 1, totals)

\* the per-entry refresh of the second loop
RefreshCounts(pkgs, counts) ==
    LET downloadTotals == DownloadTotals(pkgs, counts, 1, <<>>)
    IN  [i \in 1..Len(pkgs) |->
           [pkgs[i] EXCEPT
              !.VersionDownloadCount =
                  CountOf(counts, Key(pkgs[i].ID, pkgs[i].Version)),
              !.DownloadCount = CountOf(downloadTotals, pkgs[i].ID)]]

\* if id != "" && p.Properties.ID != id { continue }
PassesFilter(p, id) == id = Empty \/ p.ID = id

\* the mutant of PublishedLess sorts the earliest entry first
PublishedLess_ascending(pi, pj) == pi.Published < pj.Published

\* the less function handed to sort.Slice: tj.Before(ti); the Published values
\* LoadPackage writes always parse
PublishedLess(pi, pj) == pj.Published < pi.Published

\* sort.Slice on fewer than 12 elements is an insertion sort:
\* for i := 1; i < n; i++ { for j := i; j > 0 && less(j, j-1); j-- { swap } }
RECURSIVE SinkDown(_, _)
SinkDown(s, j) ==
    IF j > 1 /\ PublishedLess(s[j], s[j - 1])
    THEN SinkDown([s EXCEPT ![j] = s[j - 1], ![j - 1] = s[j]], j - 1)
    ELSE s

RECURSIVE InsertionSort(_, _)
InsertionSort(s, i) ==
    IF i > Len(s) THEN s ELSE InsertionSort(SinkDown(s, i), i + 1)

\* the mutant of PageStart resumes at the cursor's entry itself
PageStart_atCursor(sorted, startAfter) ==
    LET i == FirstIndex({j \in 1..Len(sorted) :
                           Key(sorted[j].ID, sorted[j].Version) = startAfter})
    IN  IF startAfter = Empty \/ i = 0 THEN 0 ELSE i - 1

\* the mutant of PageStart returns no entry for a cursor that matches none
PageStart_staleEmpty(sorted, startAfter) ==
    LET i == FirstIndex({j \in 1..Len(sorted) :
                           Key(sorted[j].ID, sorted[j].Version) = startAfter})
    IN  IF startAfter = Empty THEN 0 ELSE IF i = 0 THEN Len(sorted) ELSE i

\* start := 0; the index after the first entry whose id/version is startAfter
PageStart(sorted, startAfter) ==
    IF startAfter = Empty THEN 0
    ELSE FirstIndex({j \in 1..Len(sorted) :
                       Key(sorted[j].ID, sorted[j].Version) = startAfter})

\* the mutant of HasMore also reports more when the page ends the result
HasMore_atEnd(end, n) == end <= n

\* hasMore := end < len(packages)
HasMore(end, n) == end < n

\* GetPackageFeedEntries(id, startAfter, max): the refreshed catalog, the page
\* and hasMore; packages[start:end] panics when end < start
GetPackageFeedEntries(pkgs, counts, id, startAfter, max) ==
    LET refreshed == RefreshCounts(pkgs, counts)
        Passes(p) == PassesFilter(p, id)
        sorted == InsertionSort(SelectSeq(refreshed, Passes), 2)
        start == PageStart(sorted, startAfter)
        end == IF start + max > Len(sorted) THEN Len(sorted) ELSE start + max
    IN  [packages |-> refreshed,
         result |-> sorted,
         page |-> IF end < start THEN <<>> ELSE SubSeq(sorted, start + 1, end),
         hasMore |-> HasMore(end, Len(sorted)),
         panics |-> end < start]

(***************************************************************************)
(* Init: the counter table is read back and the archive root is scanned.   *)
(***************************************************************************)
\* ioutil.ReadDir returns the names sorted
RECURSIVE SortNames(_)
SortNames(S) ==
    IF S = {} THEN <<>>
    ELSE LET m == CHOOSE n \in S : \A o \in S : o = n \/ StrLess(n, o)
         IN  <<m>> \o SortNames(S \ {m})

\* the loop over the version directories of one id directory: a directory
\* without its archive, or an archive that does not load, breaks the loop
RECURSIVE ScanVersions(_, _, _, _, _, _)
\* after fs.LoadPackage(fp) returned l: if err != nil { break }
ScanLoaded(l, files, id, vers, k, failAt) ==
    IF l.err # "" THEN [packages |-> l.packages, content |-> l.content]
    ELSE ScanVersions([packages |-> l.packages, content |-> l.content],
                      files, id, vers, k + 1, failAt)

ScanVersions(st, files, id, vers, k, failAt) ==
    IF k > Len(vers) THEN st
    ELSE LET fp == PackageDir(id, vers[k])
         IN  IF fp \notin DOMAIN files THEN st
             ELSE ScanLoaded(LoadPackage(st.packages, st.content, files[fp],
                                         fp \in failAt),
                             files, id, vers, k, failAt)

\* the loop over the id directories
RECURSIVE ScanIDs(_, _, _, _, _)
ScanIDs(st, disk, ids, k, failAt) ==
    IF k > Len(ids) THEN st
    ELSE LET vers == SortNames({d[2] : d \in {e \in disk.dirs : e[1] = ids[k]}})
         IN  ScanIDs(ScanVersions(st, disk.files, ids[k], vers, 1, failAt),
                     disk, ids, k + 1, failAt)

\* RefeshPackages: scan, sync the counts, recalculate the latest flags
RefeshScanned(scanned, counts) ==
    [packages |->
       RecalculateLatestVersions(UpdateCountsInMemory(scanned.packages, counts)),
     content |-> scanned.content]

RefeshPackages(disk, counts, failAt) ==
    RefeshScanned(ScanIDs([packages |-> <<>>, content |-> disk.content],
                          disk, SortNames({d[1] : d \in disk.dirs}), 1, failAt),
                  counts)

\* downloads.json is the JSON object of the table: its set of members
\* <<key, count>>, empty when there is no file
\* LoadDownloadCounts: json.Unmarshal into a fresh map
LoadDownloadCounts(file) ==
    [k \in {m[1] : m \in file} |-> (CHOOSE m \in file : m[1] = k)[2]]

\* SaveDownloadCounts: json.MarshalIndent of the whole table, written out
SaveDownloadCounts(counts) == {<<k, counts[k]>> : k \in DOMAIN counts}

\* Init on a fresh fileStoreLocal over the same root directory
InitLoaded(counts, refreshed) ==
    [packages |-> UpdateCountsInMemory(refreshed.packages, counts),
     counts |-> counts,
     content |-> refreshed.content]

InitStore(disk, file, failAt) ==
    InitLoaded(LoadDownloadCounts(file),
               RefeshPackages(disk, LoadDownloadCounts(file), failAt))

(***************************************************************************)
(* GetAccessLevel.                                                         *)
(***************************************************************************)
\* for _, k := range list { if k == key
InList(list, key) == \E i \in 1..Len(list) : list[i] = key

\* the mutant of GetAccessLevel looks at the read-only list first
GetAccessLevel_readOnlyFirst(cfg, key) ==
    IF Len(cfg.ReadOnly) = 0 /\ Len(cfg.ReadWrite) = 0
    THEN [level |-> "accessReadWrite", err |-> ""]
    ELSE IF Len(cfg.ReadOnly) > 0
    THEN IF InList(cfg.ReadOnly, key)
         THEN [level |-> "accessReadOnly", err |-> ""]
         ELSE IF InList(cfg.ReadWrite, key)
         THEN [level |-> "accessReadWrite", err |-> ""]
         ELSE [level |-> "accessDenied", err |-> "unauthorized"]
    ELSE IF InList(cfg.ReadWrite, key)
    THEN [level |-> "accessReadWrite", err |-> ""]
    ELSE [level |-> "accessReadOnly", err |-> ""]

GetAccessLevel(cfg, key) ==
    IF Len(cfg.ReadOnly) = 0 /\ Len(cfg.ReadWrite) = 0
    THEN [level |-> "accessReadWrite", err |-> ""]
    ELSE IF Len(cfg.ReadOnly) > 0
    THEN IF InList(cfg.ReadWrite, key)
         THEN [level |-> "accessReadWrite", err |-> ""]
         ELSE IF InList(cfg.ReadOnly, key)
         THEN [level |-> "accessReadOnly", err |-> ""]
         ELSE [level |-> "accessDenied", err |-> "unauthorized"]
    ELSE IF InList(cfg.ReadWrite, key)
    THEN [level |-> "accessReadWrite", err |-> ""]
    ELSE [level |-> "accessReadOnly", err |-> ""]


(***************************************************************************)
(* The request handler of main: what it resolves and what it calls.        *)
(***************************************************************************)
Methods == {"GET", "PUT", "POST"}
\* where the request's URL falls: outside the API ("www"), the service root,
\* $metadata, Packages (the list), Packages(Id=..,Version=..), FindPackagesById,
\* nupkg/<id>/<version>, files/..., the alternative browse path,
\* api/v2/package/, or anything else under the API
Routes == {"www", "root", "$metadata", "Packages", "PackagesEntry",
           "FindPackagesById", "nupkg", "files", "browse", "package", "other"}

\* the mutant of Dispatch lets any resolved key upload
Dispatch_putUnchecked(cfg, method, route, key) ==
    LET access == GetAccessLevel(cfg, key)
        open == [resolved |-> FALSE, level |-> "accessDenied", call |-> "none",
                 status |-> 200]
        resolved == [resolved |-> TRUE, level |-> access.level,
                     call |-> "none", status |-> 200]
    IN  IF route = "www" THEN [open EXCEPT !.call = "GetFile"]
        ELSE IF method = "GET" /\ route \in {"root", "$metadata"} THEN open
        ELSE IF access.err # "" THEN [resolved EXCEPT !.status = 500]
        ELSE IF access.level = "accessDenied"
        THEN [resolved EXCEPT !.status = 403]
        ELSE IF method = "GET"
        THEN IF route \in {"Packages", "FindPackagesById"}
             THEN [resolved EXCEPT !.call = "GetPackageFeedEntries"]
             ELSE IF route = "PackagesEntry"
             THEN [resolved EXCEPT !.call = "GetPackageEntry"]
             ELSE IF route = "nupkg"
             THEN [resolved EXCEPT !.call = "GetPackageFile"]
             ELSE IF route \in {"files", "browse"}
             THEN [resolved EXCEPT !.call = "GetFile"]
             ELSE resolved
        ELSE IF method = "PUT"
        THEN IF route \in {"root", "package"}
             THEN [resolved EXCEPT !.call = "StorePackage"]
             ELSE [resolved EXCEPT !.status = 404]
        ELSE [resolved EXCEPT !.status = 404]

\* the handler up to the call it makes: whether GetAccessLevel was called,
\* the level it gave, the file store operation routed to ("none": no
\* operation), and the status written before any operation runs
Dispatch(cfg, method, route, key) ==
    LET access == GetAccessLevel(cfg, key)
        open == [resolved |-> FALSE, level |-> "accessDenied", call |-> "none",
                 status |-> 200]
        resolved == [resolved |-> TRUE, level |-> access.level,
                     call |-> "none", status |-> 200]
    IN  IF route = "www" THEN [open EXCEPT !.call = "GetFile"]
        ELSE IF method = "GET" /\ route \in {"root", "$metadata"} THEN open
        ELSE IF access.err # "" THEN [resolved EXCEPT !.status = 500]
        ELSE IF access.level = "accessDenied"
        THEN [resolved EXCEPT !.status = 403]
        ELSE IF method = "GET"
        THEN IF route \in {"Packages", "FindPackagesById"}
             THEN [resolved EXCEPT !.call = "GetPackageFeedEntries"]
             ELSE IF route = "PackagesEntry"
             THEN [resolved EXCEPT !.call = "GetPackageEntry"]
             ELSE IF route = "nupkg"
             THEN [resolved EXCEPT !.call = "GetPackageFile"]
             ELSE IF route \in {"files", "browse"}
             THEN [resolved EXCEPT !.call = "GetFile"]
             ELSE resolved
        ELSE IF method = "PUT"
        THEN IF access.level # "accessReadWrite"
             THEN [resolved EXCEPT !.status = 403]
             ELSE IF route \in {"root", "package"}
             THEN [resolved EXCEPT !.call = "StorePackage"]
             ELSE [resolved EXCEPT !.status = 404]
        ELSE [resolved EXCEPT !.status = 404]

\* the page size the handler asks the feed for
FeedPageSize == 100

\* strings.ReplaceAll(strings.ReplaceAll($skiptoken, "'", ""), ",", ".")
RECURSIVE SkipTokenToStartAfter(_)
SkipTokenToStartAfter(tok) ==
    IF tok = <<>> THEN <<>>
    ELSE IF Head(tok) = 39 THEN SkipTokenToStartAfter(Tail(tok))
    ELSE IF Head(tok) = 44 THEN <<46>> \o SkipTokenToStartAfter(Tail(tok))
    ELSE <<Head(tok)>> \o SkipTokenToStartAfter(Tail(tok))

\* fmt.Sprintf(`'%s','%s'`, ID, Version): the $skiptoken of a next link
SkipToken(p) == <<39>> \o p.ID \o <<39, 44, 39>> \o p.Version \o <<39>>

(***************************************************************************)
(* State.                                                                  *)
(***************************************************************************)
VARIABLES
    packages,        \* fs.packages: the catalog, a sequence of entries
    downloadCounts,  \* fs.downloadCounts: id/version -> count
    disk,            \* the archive root: dirs, files (the archives), content
    countsFile,      \* rootDir/downloads.json
    cfg,             \* config.FileStore.APIKeys
    ret,             \* the last call of a file store operation and its result
    http,            \* the last request the handler served
    pager,           \* the run of feed queries that follows one cursor
    fetches,         \* successful GetPackageFile calls per archive
    calls,           \* the calls in progress, one per goroutine
    lock             \* fs.lock: the goroutine that holds it, 0 when free

vars == <<packages, downloadCounts, disk, countsFile, cfg, ret, http, pager,
          fetches, calls, lock>>

\* the goroutines that serve uploads at the same time
Goroutines == {1, 2}

NoCall == [op |-> "none"]
NoRequest == [method |-> "", route |-> "", key |-> Empty, resolved |-> FALSE,
              level |-> "accessDenied", call |-> "none", status |-> 0]
IdlePager == [active |-> FALSE, id |-> Empty, max |-> 0, cursor |-> Empty,
              calls |-> 0, seen |-> <<>>, sizes |-> <<>>, mores |-> <<>>,
              done |-> FALSE]
NoFile == [bytes |-> NoBytes, mtime |-> 0]
\* a goroutine's StorePackage call: where it stands, the bytes it was given,
\* the archive file and the catalog its LoadPackage read, and what it returned
IdleCall == [pc |-> "idle", pkg |-> NoBytes, file |-> NoFile, read |-> <<>>,
             created |-> FALSE, err |-> ""]
OpenServer == [ReadOnly |-> <<>>, ReadWrite |-> <<>>]

\* a server started on an empty root directory, with no API keys configured
Init ==
    /\ packages = <<>>
    /\ downloadCounts = <<>>
    /\ disk = [dirs |-> {}, files |-> <<>>, content |-> {}]
    /\ countsFile = {}
    /\ cfg = OpenServer
    /\ ret = NoCall
    /\ http = NoRequest
    /\ pager = IdlePager
    /\ fetches = <<>>
    /\ calls = [g \in Goroutines |-> IdleCall]
    /\ lock = 0

(***************************************************************************)
(* The operations of the file store, called one at a time.                 *)
(***************************************************************************)
\* the bound on the archive root: a store may add a directory while fewer
\* than MaxArchives exist
CanStore(d, pkg) == NupkgPath(pkg) \in d.dirs \/ Cardinality(d.dirs) < MaxArchives

\* the failures that can happen to the store of pkg: the I/O steps it reaches
Reaches(d, pkg, fail) ==
    \/ fail = "none"
    \/ /\ pkg.zip /\ pkg.nuspec /\ NupkgPath(pkg) \notin DOMAIN d.files
       /\ (fail \in {"load", "extract"} => pkg.payload)

\* file modification times do not run backwards
NewTimes(d) ==
    {t \in 0..MaxTime : \A f \in DOMAIN d.files : d.files[f].mtime <= t}

FileAt(d, path) == IF path \in DOMAIN d.files THEN d.files[path] ELSE NoFile

\* the id/version tokens of a sequence of entries
Tokens(page) == [i \in 1..Len(page) |-> Key(page[i].ID, page[i].Version)]

\* whether a query (id, startAfter, max) asks for the page after the last one
Continues(id, startAfter, max) ==
    /\ pager.active /\ ~pager.done /\ id = pager.id /\ max = pager.max
    /\ startAfter = pager.cursor /\ startAfter # Empty
    /\ pager.calls <= MaxArchives

\* the run of feed queries after a query (id, startAfter, max) that returned r:
\* an empty cursor starts a run, the previous page's last token continues it
PagerAfter(id, startAfter, max, r) ==
    LET last == IF Len(r.page) = 0 THEN Empty
                ELSE Key(r.page[Len(r.page)].ID, r.page[Len(r.page)].Version)
    IN  IF startAfter = Empty
        THEN [active |-> TRUE, id |-> id, max |-> max, cursor |-> last,
              calls |-> 1, seen |-> Tokens(r.page), sizes |-> <<Len(r.page)>>,
              mores |-> <<r.hasMore>>, done |-> ~r.hasMore]
        ELSE IF Continues(id, startAfter, max)
        THEN [pager EXCEPT !.cursor = last, !.calls = @ + 1,
                           !.seen = @ \o Tokens(r.page),
                           !.sizes = Append(@, Len(r.page)),
                           !.mores = Append(@, r.hasMore),
                           !.done = ~r.hasMore]
        ELSE IdlePager

\* how many entries the catalog holds for an id (ignoring case) and version
EntriesOf(pkgs, id, ver) ==
    Cardinality({i \in 1..Len(pkgs) :
                   EqualFold(pkgs[i].ID, id) /\ pkgs[i].Version = ver})

StoreResult(pkg, r) ==
    [op |-> "StorePackage", pkg |-> pkg, created |-> r.created, err |-> r.err,
     detail |-> r.detail, recalc |-> r.recalc, held |-> EntriesOf(packages, pkg.ID, pkg.Version),
     before |-> FileAt(disk, PackageDir(ToLower(pkg.ID), pkg.Version))]

DoStore(pkg, fail, mtime) ==
    \E r \in {StorePackage(packages, disk, pkg, fail, mtime)} :
        /\ CanStore(disk, pkg)
        /\ Reaches(disk, pkg, fail)
        /\ packages' = r.packages
        /\ disk' = r.disk
        /\ ret' = StoreResult(pkg, r)
        /\ pager' = IdlePager
        /\ UNCHANGED <<downloadCounts, countsFile, fetches>>

DoRemove(fn) ==
    LET i == FirstIndex({j \in 1..Len(packages) : Filename(packages[j]) = fn})
        Kept(path) == ~UnderContent(fn, path)
    IN  /\ packages' = RemovePackage(packages, fn)
        /\ disk' = [dirs |-> {d \in disk.dirs : Kept(d)},
                    files |-> [f \in {d \in DOMAIN disk.files : Kept(d)} |->
                                 disk.files[f]],
                    content |-> {d \in disk.content : Kept(d)}]
        /\ ret' = [op |-> "RemovePackage", fn |-> fn, removed |-> i,
                   recalc |-> TRUE]
        /\ pager' = IdlePager
        /\ UNCHANGED <<downloadCounts, countsFile, fetches>>

DoGetEntry(id, ver) ==
    \E r \in {GetPackageEntry(packages, id, ver)} :
        /\ packages' = r.packages
        /\ ret' = [op |-> "GetPackageEntry", id |-> id, ver |-> ver,
                   err |-> r.err,
                   entry |-> IF r.match = 0 THEN ZeroEntry
                             ELSE r.packages[r.match]]
        /\ pager' = IdlePager
        /\ UNCHANGED <<downloadCounts, countsFile, disk, fetches>>

DoGetFile(id, ver) ==
    \E r \in {GetPackageFile(packages, downloadCounts, disk.files, id, ver)} :
        /\ CountOf(downloadCounts, Key(id, ver)) < MaxCount
        /\ packages' = r.packages
        /\ downloadCounts' = r.counts
        /\ countsFile' = IF r.err = "" THEN SaveDownloadCounts(r.counts)
                         ELSE countsFile
        /\ fetches' = IF r.err = ""
                      THEN MapPut(fetches, PackageDir(id, ver),
                                  CountOf(fetches, PackageDir(id, ver)) + 1)
                      ELSE fetches
        /\ ret' = [op |-> "GetPackageFile", id |-> id, ver |-> ver,
                   err |-> r.err, content |-> r.content]
        /\ pager' = IdlePager
        /\ UNCHANGED disk

FeedResult(id, startAfter, max, r) ==
    [op |-> "GetPackageFeedEntries", id |-> id, startAfter |-> startAfter,
     max |-> max, result |-> r.result, page |-> r.page,
     hasMore |-> r.hasMore, panics |-> r.panics]

DoFeedOn(pkgs, id, startAfter, max) ==
    \E r \in {GetPackageFeedEntries(pkgs, downloadCounts, id, startAfter, max)} :
        /\ packages' = r.packages
        /\ ret' = FeedResult(id, startAfter, max, r)
        /\ pager' = PagerAfter(id, startAfter, max, r)
        /\ UNCHANGED <<downloadCounts, countsFile, disk, fetches>>

DoFeed(id, startAfter, max) == DoFeedOn(packages, id, startAfter, max)

\* the process ends and a new one runs Init on the same root directory
DoRestart(failAt) ==
    \E r \in {InitStore(disk, countsFile, failAt)} :
        /\ packages' = r.packages
        /\ downloadCounts' = r.counts
        /\ disk' = [disk EXCEPT !.content = r.content]
        /\ ret' = [op |-> "Init", before |-> packages, recalc |-> TRUE,
                   failAt |-> failAt]
        /\ pager' = IdlePager
        /\ UNCHANGED <<countsFile, fetches>>

\* the names RemovePackage is called with, and the cursors the feed is asked
\* to resume after
Filenames == {id \o Dot \o v : id \in PackageIDs, v \in Versions}
\* "x/0", the id/version of no entry
StaleCursor == <<120, 47, 48>>
Cursors(pkgs) ==
    {Empty, StaleCursor} \cup {Key(pkgs[i].ID, pkgs[i].Version) : i \in 1..Len(pkgs)}

\* One call at a time: an operation starts when the caller holds no result,
\* and the caller either drops the result it holds or, holding a feed page,
\* asks for the page after it.
Store ==
    /\ ret = NoCall
    /\ \E pkg \in Uploads, fail \in StoreFailures, mtime \in NewTimes(disk) :
         DoStore(pkg, fail, mtime)
    /\ UNCHANGED <<cfg, http, calls, lock>>

Remove ==
    /\ ret = NoCall
    /\ \E fn \in Filenames : DoRemove(fn)
    /\ UNCHANGED <<cfg, http, calls, lock>>

GetEntry ==
    /\ ret = NoCall
    /\ \E id \in PackageIDs, ver \in Versions : DoGetEntry(id, ver)
    /\ UNCHANGED <<cfg, http, calls, lock>>

Fetch ==
    /\ ret = NoCall
    /\ \E id \in PackageIDs, ver \in Versions : DoGetFile(id, ver)
    /\ UNCHANGED <<cfg, http, calls, lock>>

Feed ==
    /\ ret = NoCall
    /\ \E id \in PackageIDs \cup {Empty}, startAfter \in Cursors(packages),
          max \in {-1} \cup 0..MaxResults : DoFeed(id, startAfter, max)
    /\ UNCHANGED <<cfg, http, calls, lock>>

FeedNextPage ==
    /\ ret # NoCall
    /\ Continues(pager.id, pager.cursor, pager.max)
    /\ DoFeed(pager.id, pager.cursor, pager.max)
    /\ UNCHANGED <<cfg, http, calls, lock>>

Restart ==
    /\ ret = NoCall
    /\ \E failAt \in {{}} \cup {{d} : d \in disk.dirs} : DoRestart(failAt)
    /\ UNCHANGED <<cfg, http, calls, lock>>

Return ==
    /\ ret # NoCall \/ http # NoRequest
    /\ ret' = NoCall
    /\ http' = NoRequest
    /\ pager' = IdlePager
    /\ UNCHANGED <<packages, downloadCounts, disk, countsFile, cfg, fetches,
                   calls, lock>>

Next ==
    \/ Store \/ Remove \/ GetEntry \/ Fetch \/ Feed \/ FeedNextPage
    \/ Restart \/ Return

Spec == Init /\ [][Next]_vars

(***************************************************************************)
(* The request handler, one request at a time, on a server configured with *)
(* any of the key lists.                                                   *)
(***************************************************************************)
InitHttp ==
    /\ packages = <<>>
    /\ downloadCounts = <<>>
    /\ disk = [dirs |-> {}, files |-> <<>>, content |-> {}]
    /\ countsFile = {}
    /\ cfg \in Configs
    /\ ret = NoCall
    /\ http = NoRequest
    /\ pager = IdlePager
    /\ fetches = <<>>
    /\ calls = [g \in Goroutines |-> IdleCall]
    /\ lock = 0

\* the request as served: what Dispatch decided and the status written
Served(method, route, key, d, status) ==
    [method |-> method, route |-> route, key |-> key, resolved |-> d.resolved,
     level |-> d.level, call |-> d.call, status |-> status]

\* uploadPackage: 409 when the error says "already exists", 500 on any other
\* error, 201 when the part was stored
UploadStatus(err, detail) ==
    IF err = "" THEN 201
    ELSE IF ErrorContainsAlreadyExists(err, detail) THEN 409 ELSE 500

\* serveStaticFile and servePackageFile: 404 on ErrFileNotFound
FileStatus(err) == IF err = "" THEN 200 ELSE 404

\* servePackageFeed on Packages(Id=..,Version=..): 500 on any error
EntryStatus(err) == IF err = "" THEN 200 ELSE 500

\* GetFile(f): the file rootDir/f if it is there, ErrFileNotFound if not
GetFile(present) == [err |-> IF present THEN "" ELSE "file not found"]

\* the $skiptoken values a client presents: none, or the one of a next link
SkipTokens == {Empty} \cup {SkipToken(packages[i]) : i \in 1..Len(packages)}

\* the bodies clients upload: version 1.9 of the id in either letter case,
\* and bytes that are no archive; the versions they ask for
Bodies ==
    [zip : {TRUE}, nuspec : {TRUE}, ID : PackageIDs, Version : {V1_9},
     payload : {FALSE}] \cup {NoBytes}
AskedVersions == {V1_9, V1_10}
\* the bodies of uploads: also an archive whose manifest id is
\* "already exists"
UploadBodies ==
    Bodies \cup {[zip |-> TRUE, nuspec |-> TRUE, ID |-> AlreadyExistsText,
                  Version |-> V1_9, payload |-> FALSE]}

\* a request that ends without a file store operation: the open routes, a
\* refused key, an unknown route or method
HttpNoCall ==
    /\ ret = NoCall /\ http = NoRequest
    /\ \E method \in Methods, route \in Routes, key \in PresentedKeys :
         \E d \in {Dispatch(cfg, method, route, key)} :
            /\ d.call = "none"
            /\ http' = Served(method, route, key, d, d.status)
    /\ UNCHANGED <<packages, downloadCounts, disk, countsFile, cfg, ret, pager,
                   fetches, calls, lock>>

HttpStaticFile ==
    /\ ret = NoCall /\ http = NoRequest
    /\ \E method \in Methods, route \in Routes, key \in PresentedKeys,
          present \in BOOLEAN :
         \E d \in {Dispatch(cfg, method, route, key)} :
            /\ d.call = "GetFile"
            /\ ret' = [op |-> "GetFile", err |-> GetFile(present).err]
            /\ http' = Served(method, route, key, d,
                              FileStatus(GetFile(present).err))
    /\ UNCHANGED <<packages, downloadCounts, disk, countsFile, cfg, pager,
                   fetches, calls, lock>>

HttpUpload ==
    /\ ret = NoCall /\ http = NoRequest
    /\ \E method \in Methods, route \in Routes, key \in PresentedKeys,
          pkg \in UploadBodies, fail \in StoreFailures,
          mtime \in NewTimes(disk) :
         \E d \in {Dispatch(cfg, method, route, key)} :
            /\ d.call = "StorePackage"
            /\ DoStore(pkg, fail, mtime)
            /\ http' = Served(method, route, key, d,
                              UploadStatus(ret'.err, ret'.detail))
    /\ UNCHANGED <<cfg, calls, lock>>

HttpPackageFile ==
    /\ ret = NoCall /\ http = NoRequest
    /\ \E method \in Methods, route \in Routes, key \in PresentedKeys,
          id \in PackageIDs, ver \in AskedVersions :
         \E d \in {Dispatch(cfg, method, route, key)} :
            /\ d.call = "GetPackageFile"
            /\ DoGetFile(id, ver)
            /\ http' = Served(method, route, key, d, FileStatus(ret'.err))
    /\ UNCHANGED <<cfg, calls, lock>>

\* servePackageFeed on FindPackagesById and on the package list: the counts
\* are updated, then the feed is asked for a page of FeedPageSize entries
HttpFeed ==
    /\ ret = NoCall /\ http = NoRequest
    /\ \E method \in Methods, route \in Routes, key \in PresentedKeys,
          id \in PackageIDs \cup {Empty}, tok \in SkipTokens :
         \E d \in {Dispatch(cfg, method, route, key)} :
            /\ d.call = "GetPackageFeedEntries"
            /\ route = "FindPackagesById" => tok = Empty
            /\ DoFeedOn(UpdateCountsInMemory(packages, downloadCounts), id,
                        SkipTokenToStartAfter(tok), FeedPageSize)
            /\ http' = Served(method, route, key, d, d.status)
    /\ UNCHANGED <<cfg, calls, lock>>

HttpEntry ==
    /\ ret = NoCall /\ http = NoRequest
    /\ \E method \in Methods, route \in Routes, key \in PresentedKeys,
          id \in PackageIDs, ver \in AskedVersions :
         \E d \in {Dispatch(cfg, method, route, key)} :
            /\ d.call = "GetPackageEntry"
            /\ DoGetEntry(id, ver)
            /\ http' = Served(method, route, key, d, EntryStatus(ret'.err))
    /\ UNCHANGED <<cfg, calls, lock>>

NextHttp ==
    \/ HttpNoCall \/ HttpStaticFile \/ HttpUpload \/ HttpPackageFile
    \/ HttpFeed \/ HttpEntry \/ Return

SpecHttp == InitHttp /\ [][NextHttp]_vars

(***************************************************************************)
(* StorePackage in several goroutines at once.  It takes no lock: a call   *)
(* advances by one file system call, or one access to fs.packages, at a    *)
(* time, and the calls of the other goroutines run in between.             *)
(***************************************************************************)
Others == <<downloadCounts, countsFile, cfg, ret, http, pager, fetches, lock>>

\* extractPackage on the bytes received, up to the path of the archive
StoreBegin(g) ==
    /\ calls[g].pc = "idle"
    /\ \E pkg \in Bodies :
         calls' = [calls EXCEPT ![g] =
                     IF ~pkg.zip
                     THEN [IdleCall EXCEPT !.pc = "done", !.pkg = pkg,
                                           !.err = "invalid nupkg file"]
                     ELSE IF ~pkg.nuspec
                     THEN [IdleCall EXCEPT !.pc = "done", !.pkg = pkg,
                              !.err = "nuspec file not found in package"]
                     ELSE [IdleCall EXCEPT !.pc = "stat", !.pkg = pkg]]
    /\ UNCHANGED <<packages, disk>> /\ UNCHANGED Others

\* if _, err := os.Stat(nupkgPath); err == nil { return false, already exists
StoreStat(g) ==
    /\ calls[g].pc = "stat"
    /\ calls' = [calls EXCEPT ![g] =
                   IF NupkgPath(calls[g].pkg) \in DOMAIN disk.files
                   THEN [@ EXCEPT !.pc = "done",
                                  !.err = "package already exists"]
                   ELSE [@ EXCEPT !.pc = "mkdir"]]
    /\ UNCHANGED <<packages, disk>> /\ UNCHANGED Others

\* os.MkdirAll(packageDir, os.ModePerm)
StoreMkdir(g) ==
    /\ calls[g].pc = "mkdir"
    /\ CanStore(disk, calls[g].pkg)
    /\ disk' = [disk EXCEPT !.dirs = @ \cup {NupkgPath(calls[g].pkg)}]
    /\ calls' = [calls EXCEPT ![g].pc = "write"]
    /\ UNCHANGED packages /\ UNCHANGED Others

\* ioutil.WriteFile(nupkgPath, pkg, 0644)
StoreWrite(g) ==
    /\ calls[g].pc = "write"
    /\ \E mtime \in NewTimes(disk) :
         disk' = [disk EXCEPT !.files =
                    MapPut(@, NupkgPath(calls[g].pkg),
                           [bytes |-> calls[g].pkg, mtime |-> mtime])]
    /\ calls' = [calls EXCEPT ![g].pc = "load"]
    /\ UNCHANGED packages /\ UNCHANGED Others

\* LoadPackage up to sort.Search: the archive is read back and the catalog
\* is read for the place of the new entry
StoreLoadRead(g) ==
    /\ calls[g].pc = "load"
    /\ calls' = [calls EXCEPT ![g].pc = "insert",
                              ![g].file = disk.files[NupkgPath(calls[g].pkg)],
                              ![g].read = packages]
    /\ UNCHANGED <<packages, disk>> /\ UNCHANGED Others

\* the rest of LoadPackage and of StorePackage: fs.packages is assigned the
\* catalog that was read with the new entry in it, the payload files are
\* written, and the call returns
StoreLoadInsert(g) ==
    /\ calls[g].pc = "insert"
    /\ \E r \in {StoreLoaded(disk, calls[g].pkg, "none",
                               LoadPackage(calls[g].read, disk.content,
                                           calls[g].file, FALSE))} :
         /\ packages' = r.packages
         /\ disk' = r.disk
         /\ calls' = [calls EXCEPT ![g].pc = "done",
                                   ![g].created = r.created,
                                   ![g].err = r.err]
    /\ UNCHANGED Others

\* the goroutine is done with the request and free for the next one
StoreReturn(g) ==
    /\ calls[g].pc = "done"
    /\ calls' = [calls EXCEPT ![g] = IdleCall]
    /\ UNCHANGED <<packages, disk>> /\ UNCHANGED Others

Begin == \E g \in Goroutines : StoreBegin(g)
Stat == \E g \in Goroutines : StoreStat(g)
Mkdir == \E g \in Goroutines : StoreMkdir(g)
Write == \E g \in Goroutines : StoreWrite(g)
LoadRead == \E g \in Goroutines : StoreLoadRead(g)
LoadInsert == \E g \in Goroutines : StoreLoadInsert(g)
Returned == \E g \in Goroutines : StoreReturn(g)

NextConc ==
    \/ Begin \/ Stat \/ Mkdir \/ Write \/ LoadRead \/ LoadInsert \/ Returned

SpecConc == Init /\ [][NextConc]_vars

(***************************************************************************)
(* The catalog under calls of several goroutines at once.  RemovePackage   *)
(* and GetPackageFeedEntries hold fs.lock; LoadPackage, which StorePackage *)
(* calls, and GetPackageEntry do not take it.  A call advances by one      *)
(* statement on fs.packages at a time.                                     *)
(***************************************************************************)
\* the entries LoadPackage inserts: versions 1.9 and 1.10 of the id "a"
RaceEntries ==
    {[NewNugetPackageEntry([ID |-> IdLowerA, Version |-> v])
        EXCEPT !.Src = NupkgSlash \o Key(IdLowerA, v)] : v \in {V1_9, V1_10}}

\* a goroutine's call: the operation, where it stands, the entry it inserts
\* or the filename it removes, the index sort.Search gave it, and the
\* catalog as the call read it
IdleRace == [op |-> "none", pc |-> "idle", p |-> ZeroEntry, fn |-> Empty,
             index |-> 0, seen |-> <<>>]

InitRace ==
    /\ packages = <<>>
    /\ downloadCounts = <<>>
    /\ disk = [dirs |-> {}, files |-> <<>>, content |-> {}]
    /\ countsFile = {}
    /\ cfg = OpenServer
    /\ ret = NoCall
    /\ http = NoRequest
    /\ pager = IdlePager
    /\ fetches = <<>>
    /\ calls = [g \in Goroutines |-> IdleRace]
    /\ lock = 0

RaceOthers == <<downloadCounts, disk, countsFile, cfg, ret, http, pager, fetches>>

\* LoadPackage, line 256: index := sort.Search(...) for an entry that is not
\* in the catalog and that no other call is inserting
RaceLoadSearch(g) ==
    /\ calls[g].pc = "idle"
    /\ Len(packages) < MaxArchives
    /\ \E p \in RaceEntries :
         /\ \A i \in 1..Len(packages) : Filename(packages[i]) # Filename(p)
         /\ \A h \in Goroutines : calls[h].p # p
         /\ calls' = [calls EXCEPT ![g] =
                        [IdleRace EXCEPT !.op = "LoadPackage", !.pc = "append",
                                         !.p = p,
                                         !.index = InsertIndex(packages, p)]]
    /\ UNCHANGED <<packages, lock>> /\ UNCHANGED RaceOthers

\* line 258: fs.packages = append(fs.packages, &x)
RaceLoadAppend(g) ==
    /\ calls[g].pc = "append"
    /\ packages' = Append(packages, ZeroEntry)
    /\ calls' = [calls EXCEPT ![g].pc = "copy"]
    /\ UNCHANGED lock /\ UNCHANGED RaceOthers

\* line 259: copy(fs.packages[index+1:], fs.packages[index:]); the slice
\* expression panics when index+1 is beyond the length
RaceLoadCopy(g) ==
    /\ calls[g].pc = "copy"
    /\ IF calls[g].index + 1 > Len(packages)
       THEN /\ calls' = [calls EXCEPT ![g].pc = "panicked"]
            /\ UNCHANGED packages
       ELSE /\ packages' = [i \in 1..Len(packages) |->
                              IF i > calls[g].index + 1 THEN packages[i - 1]
                              ELSE packages[i]]
            /\ calls' = [calls EXCEPT ![g].pc = "assign"]
    /\ UNCHANGED lock /\ UNCHANGED RaceOthers

\* line 260: fs.packages[index] = p; the index expression panics when index
\* is beyond the last element
RaceLoadAssign(g) ==
    /\ calls[g].pc = "assign"
    /\ IF calls[g].index + 1 > Len(packages)
       THEN /\ calls' = [calls EXCEPT ![g].pc = "panicked"]
            /\ UNCHANGED packages
       ELSE /\ packages' = [packages EXCEPT ![calls[g].index + 1] = calls[g].p]
            /\ calls' = [calls EXCEPT ![g].pc = "loaded"]
    /\ UNCHANGED lock /\ UNCHANGED RaceOthers

\* line 285: fs.RecalculateLatestVersions(), and LoadPackage returns
RaceLoadRecalc(g) ==
    /\ calls[g].pc = "loaded"
    /\ packages' = RecalculateLatestVersions(packages)
    /\ calls' = [calls EXCEPT ![g].pc = "done", ![g].seen = packages]
    /\ UNCHANGED lock /\ UNCHANGED RaceOthers

\* RemovePackage, line 291: fs.lock.Lock()
RaceRemoveLock(g) ==
    /\ calls[g].pc = "idle"
    /\ lock = 0
    /\ lock' = g
    /\ \E fn \in {Filename(p) : p \in RaceEntries} :
         calls' = [calls EXCEPT ![g] =
                     [IdleRace EXCEPT !.op = "RemovePackage", !.pc = "delete",
                                      !.fn = fn]]
    /\ UNCHANGED packages /\ UNCHANGED RaceOthers

\* lines 294-299: the first entry of that filename is cut out
RaceRemoveDelete(g) ==
    /\ calls[g].pc = "delete"
    /\ \E i \in {FirstIndex({j \in 1..Len(packages) :
                               Filename(packages[j]) = calls[g].fn})} :
         packages' = IF i = 0 THEN packages ELSE RemoveAt(packages, i)
    /\ calls' = [calls EXCEPT ![g].pc = "removed"]
    /\ UNCHANGED lock /\ UNCHANGED RaceOthers

\* line 302: fs.RecalculateLatestVersions(), then the deferred Unlock
RaceRemoveRecalc(g) ==
    /\ calls[g].pc = "removed"
    /\ packages' = RecalculateLatestVersions(packages)
    /\ calls' = [calls EXCEPT ![g].pc = "done", ![g].seen = packages]
    /\ lock' = 0
    /\ UNCHANGED RaceOthers

\* GetPackageEntry(id, ver): the loop over fs.packages, without the lock
RaceGetEntry(g) ==
    /\ calls[g].pc = "idle"
    /\ \E ver \in {V1_9, V1_10} :
         packages' = GetPackageEntry(packages, IdLowerA, ver).packages
    /\ calls' = [calls EXCEPT ![g] =
                   [IdleRace EXCEPT !.op = "GetPackageEntry", !.pc = "done",
                                    !.seen = packages]]
    /\ UNCHANGED lock /\ UNCHANGED RaceOthers

\* GetPackageFeedEntries, line 427: fs.lock.Lock()
RaceFeedLock(g) ==
    /\ calls[g].pc = "idle"
    /\ lock = 0
    /\ lock' = g
    /\ calls' = [calls EXCEPT ![g] =
                   [IdleRace EXCEPT !.op = "GetPackageFeedEntries",
                                    !.pc = "locked"]]
    /\ UNCHANGED packages /\ UNCHANGED RaceOthers

\* lines 430-493: the loops over fs.packages, then the deferred Unlock
RaceFeedRead(g) ==
    /\ calls[g].pc = "locked"
    /\ packages' = GetPackageFeedEntries(packages, downloadCounts, Empty, Empty,
                                         FeedPageSize).packages
    /\ calls' = [calls EXCEPT ![g].pc = "done", ![g].seen = packages]
    /\ lock' = 0
    /\ UNCHANGED RaceOthers

\* the call is over (a panic ends the request, not the server)
RaceReturn(g) ==
    /\ calls[g].pc \in {"done", "panicked"}
    /\ calls' = [calls EXCEPT ![g] = IdleRace]
    /\ UNCHANGED <<packages, lock>> /\ UNCHANGED RaceOthers

NextRace ==
    \E g \in Goroutines :
       \/ RaceLoadSearch(g) \/ RaceLoadAppend(g) \/ RaceLoadCopy(g)
       \/ RaceLoadAssign(g) \/ RaceLoadRecalc(g)
       \/ RaceRemoveLock(g) \/ RaceRemoveDelete(g) \/ RaceRemoveRecalc(g)
       \/ RaceGetEntry(g) \/ RaceFeedLock(g) \/ RaceFeedRead(g)
       \/ RaceReturn(g)

SpecRace == InitRace /\ [][NextRace]_vars

(***************************************************************************)
(* The download counters under GetPackageFile calls of several goroutines  *)
(* at once.  GetPackageFile takes no lock: fs.downloadCounts[key]++ is a   *)
(* read and a write of the map, and SaveDownloadCounts marshals the table  *)
(* and then writes the file.  GetPackageFeedEntries reads the table under  *)
(* fs.lock.                                                                *)
(***************************************************************************)
MaxFetches == 3

\* the archive of "a" 1.9 as uploaded
CountedBody == [zip |-> TRUE, nuspec |-> TRUE, ID |-> IdLowerA,
                Version |-> V1_9, payload |-> FALSE]

\* the store after StorePackage of that archive on an empty root
CountedStore ==
    StorePackage(<<>>, [dirs |-> {}, files |-> <<>>, content |-> {}],
                 CountedBody, "none", 0)

\* a goroutine's call: the operation, where it stands, the version asked for,
\* the counter value it read, the bytes it marshalled, the error it returns
IdleCount == [op |-> "none", pc |-> "idle", ver |-> Empty, tmp |-> 0,
              data |-> {}, err |-> ""]

InitCount ==
    /\ packages = CountedStore.packages
    /\ downloadCounts = <<>>
    /\ disk = CountedStore.disk
    /\ countsFile = {}
    /\ cfg = OpenServer
    /\ ret = NoCall
    /\ http = NoRequest
    /\ pager = IdlePager
    /\ fetches = <<>>
    /\ calls = [g \in Goroutines |-> IdleCount]
    /\ lock = 0

CountOthers == <<disk, cfg, ret, http, pager>>

\* the GetPackageFile calls that have read the archive and not yet returned
Fetching == {g \in Goroutines : calls[g].pc \notin {"idle", "done"}
                                   /\ calls[g].op = "GetPackageFile"}

\* lines 496-506: ioutil.ReadFile of the archive at rootDir/id/ver
CountFetchRead(g) ==
    /\ calls[g].pc = "idle"
    /\ \E ver \in AskedVersions :
         IF PackageDir(IdLowerA, ver) \in DOMAIN disk.files
         THEN /\ Cardinality(Fetching)
                   + CountOf(fetches, PackageDir(IdLowerA, ver)) < MaxFetches
              /\ calls' = [calls EXCEPT ![g] =
                             [IdleCount EXCEPT !.op = "GetPackageFile",
                                               !.pc = "read", !.ver = ver]]
         ELSE calls' = [calls EXCEPT ![g] =
                          [IdleCount EXCEPT !.op = "GetPackageFile",
                                            !.pc = "done", !.ver = ver,
                                            !.err = "file not found"]]
    /\ UNCHANGED <<packages, downloadCounts, countsFile, fetches, lock>>
    /\ UNCHANGED CountOthers

\* line 509, fs.downloadCounts[key]++: the read of the counter
CountFetchLoad(g) ==
    /\ calls[g].pc = "read"
    /\ calls' = [calls EXCEPT
                   ![g].pc = "loaded",
                   ![g].tmp = CountOf(downloadCounts,
                                      Key(IdLowerA, calls[g].ver))]
    /\ UNCHANGED <<packages, downloadCounts, countsFile, fetches, lock>>
    /\ UNCHANGED CountOthers

\* line 509, fs.downloadCounts[key]++: the write of the counter
CountFetchStore(g) ==
    /\ calls[g].pc = "loaded"
    /\ downloadCounts' = MapPut(downloadCounts, Key(IdLowerA, calls[g].ver),
                                calls[g].tmp + 1)
    /\ calls' = [calls EXCEPT ![g].pc = "stored"]
    /\ UNCHANGED <<packages, countsFile, fetches, lock>>
    /\ UNCHANGED CountOthers

\* SaveDownloadCounts, line 89: json.MarshalIndent(fs.downloadCounts)
CountFetchMarshal(g) ==
    /\ calls[g].pc = "stored"
    /\ calls' = [calls EXCEPT ![g].pc = "marshalled",
                              ![g].data = SaveDownloadCounts(downloadCounts)]
    /\ UNCHANGED <<packages, downloadCounts, countsFile, fetches, lock>>
    /\ UNCHANGED CountOthers

\* SaveDownloadCounts, line 93: ioutil.WriteFile(fs.countsPath, data)
CountFetchWrite(g) ==
    /\ calls[g].pc = "marshalled"
    /\ countsFile' = calls[g].data
    /\ calls' = [calls EXCEPT ![g].pc = "saved"]
    /\ UNCHANGED <<packages, downloadCounts, fetches, lock>>
    /\ UNCHANGED CountOthers

\* lines 512-517: the first matching entry shows the counter, and the call
\* returns the content
CountFetchUpdate(g) ==
    /\ calls[g].pc = "saved"
    /\ \E i \in {FirstIndex({j \in 1..Len(packages) :
                               /\ EqualFold(packages[j].ID, IdLowerA)
                               /\ packages[j].Version = calls[g].ver})} :
         packages' =
            IF i = 0 THEN packages
            ELSE [packages EXCEPT ![i].VersionDownloadCount =
                    CountOf(downloadCounts, Key(IdLowerA, calls[g].ver))]
    /\ fetches' = MapPut(fetches, PackageDir(IdLowerA, calls[g].ver),
                         CountOf(fetches, PackageDir(IdLowerA, calls[g].ver)) + 1)
    /\ calls' = [calls EXCEPT ![g].pc = "done"]
    /\ UNCHANGED <<downloadCounts, countsFile, lock>>
    /\ UNCHANGED CountOthers

\* GetPackageFeedEntries, line 427: fs.lock.Lock()
CountFeedLock(g) ==
    /\ calls[g].pc = "idle"
    /\ lock = 0
    /\ lock' = g
    /\ calls' = [calls EXCEPT ![g] =
                   [IdleCount EXCEPT !.op = "GetPackageFeedEntries",
                                     !.pc = "locked"]]
    /\ UNCHANGED <<packages, downloadCounts, countsFile, fetches>>
    /\ UNCHANGED CountOthers

\* lines 430-447: the loops that read fs.downloadCounts; then the page and
\* the deferred Unlock
CountFeedRead(g) ==
    /\ calls[g].pc = "locked"
    /\ packages' = GetPackageFeedEntries(packages, downloadCounts, Empty, Empty,
                                         FeedPageSize).packages
    /\ calls' = [calls EXCEPT ![g].pc = "done"]
    /\ lock' = 0
    /\ UNCHANGED <<downloadCounts, countsFile, fetches>>
    /\ UNCHANGED CountOthers

CountReturn(g) ==
    /\ calls[g].pc = "done"
    /\ calls' = [calls EXCEPT ![g] = IdleCount]
    /\ UNCHANGED <<packages, downloadCounts, countsFile, fetches, lock>>
    /\ UNCHANGED CountOthers

NextCount ==
    \E g \in Goroutines :
       \/ CountFetchRead(g) \/ CountFetchLoad(g) \/ CountFetchStore(g)
       \/ CountFetchMarshal(g) \/ CountFetchWrite(g) \/ CountFetchUpdate(g)
       \/ CountFeedLock(g) \/ CountFeedRead(g) \/ CountReturn(g)

SpecCount == InitCount /\ [][NextCount]_vars

(***************************************************************************)
(* compareVersions on its own: it is applied to any two version strings.   *)
(***************************************************************************)
\* version strings are at most MaxVersionLen characters of "1", "9", ".",
\* "a" and "-", or one of the versions 1.2.0, 1.2, 1.10.0, 1.9.0, 2.0, 1.9.9
MaxVersionLen == 3
VersionChars == {49, 57, 46, 97, 45}
VersionStrings ==
    UNION {[1..n -> VersionChars] : n \in 0..MaxVersionLen}
      \cup {<<49, 46, 50, 46, 48>>, <<49, 46, 50>>, <<49, 46, 49, 48, 46, 48>>,
            <<49, 46, 57, 46, 48>>, <<50, 46, 48>>, <<49, 46, 57, 46, 57>>}

\* a call of compareVersions(v1, v2) and what it returned
Compare ==
    /\ ret = NoCall
    /\ \E v1, v2 \in VersionStrings :
         ret' = [op |-> "compareVersions", v1 |-> v1, v2 |-> v2,
                 result |-> compareVersions(v1, v2)]
    /\ UNCHANGED <<packages, downloadCounts, disk, countsFile, cfg, http,
                   pager, fetches, calls, lock>>

NextCmp == Compare \/ Return

SpecCmp == Init /\ [][NextCmp]_vars

(***************************************************************************)
(* Properties of the catalog.                                              *)
(***************************************************************************)
\* C1: after every load, store and remove, in any sequence, the catalog is
\* sorted in non-decreasing order of filename (id.version): of two adjacent
\* entries the later filename is never lexicographically below the earlier
C1_SortedByFilename ==
    \A i \in 1..(Len(packages) - 1) :
        ~StrLess(Filename(packages[i + 1]), Filename(packages[i]))

\* a store that put its entry in front of an entry stored before it
C1_Witness ==
    /\ ret.op = "StorePackage" /\ ret.created
    /\ Len(packages) = 2
    /\ packages[1].ID = ret.pkg.ID /\ packages[1].Version = ret.pkg.Version

\* the last operation ended with RecalculateLatestVersions
Recalculated ==
    ret.op \in {"StorePackage", "RemovePackage", "Init"} /\ ret.recalc

\* C2: after a recalculation of the latest flags, an entry is flagged
\* IsLatestVersion if and only if its version compares equal to the maximum
\* among the entries of its id, that is no entry of the id has a higher one:
\* every id has a flagged entry, numerically tied maxima are all flagged,
\* and IsAbsoluteLatestVersion equals IsLatestVersion on every entry
C2_LatestFlags ==
    Recalculated =>
      \A i \in 1..Len(packages) :
         /\ packages[i].IsLatestVersion =
              (\A j \in 1..Len(packages) :
                  packages[j].ID = packages[i].ID =>
                    compareVersions(packages[i].Version,
                                    packages[j].Version) >= 0)
         /\ packages[i].IsAbsoluteLatestVersion = packages[i].IsLatestVersion
         /\ \E j \in 1..Len(packages) :
               packages[j].ID = packages[i].ID /\ packages[j].IsLatestVersion

\* a recalculation over two versions of one id that tie numerically
C2_Witness ==
    /\ Recalculated
    /\ Len(packages) = 2
    /\ packages[1].ID = packages[2].ID
    /\ packages[1].Version # packages[2].Version
    /\ packages[1].IsLatestVersion /\ packages[2].IsLatestVersion

\* C3: a store of an archive whose id and version the catalog already holds
\* from an earlier store, the archive being on disk, returns created = false
\* and the already-exists error, leaves the archive on disk as it was and the
\* catalog with exactly one entry for that id and version, also when the two
\* manifests spell the id in different letter case
C3_DuplicateStore ==
    (ret.op = "StorePackage" /\ ret.held >= 1 /\ ret.before # NoFile) =>
      /\ ~ret.created
      /\ ContainsAlreadyExists(ret.err)
      /\ FileAt(disk, PackageDir(ToLower(ret.pkg.ID), ret.pkg.Version))
           = ret.before
      /\ EntriesOf(packages, ret.pkg.ID, ret.pkg.Version) = 1

\* a second store whose manifest spells the id in the other letter case
C3_Witness ==
    /\ ret.op = "StorePackage" /\ ret.held = 1 /\ ret.before # NoFile
    /\ ret.before.bytes.ID # ret.pkg.ID
    /\ ContainsAlreadyExists(ret.err)

\* C4: of the StorePackage calls of different goroutines that carry the same
\* id and version, at most one returns created = true and every other one
\* returns the already-exists error; afterwards the catalog holds exactly
\* one entry for that id and version and the archive on disk is the bytes of
\* the call that returned created = true
C4_OneWinner ==
    \A g, h \in Goroutines :
       (/\ g # h
        /\ calls[g].pc = "done" /\ calls[h].pc = "done"
        /\ calls[g].pkg.nuspec /\ calls[h].pkg.nuspec
        /\ NupkgPath(calls[g].pkg) = NupkgPath(calls[h].pkg))
       => /\ ~(calls[g].created /\ calls[h].created)
          /\ ~calls[g].created => ContainsAlreadyExists(calls[g].err)
          /\ EntriesOf(packages, calls[g].pkg.ID, calls[g].pkg.Version) = 1
          /\ calls[g].created
               => FileAt(disk, NupkgPath(calls[g].pkg)).bytes = calls[g].pkg

(***************************************************************************)
(* Round trip and download accounting.                                     *)
(***************************************************************************)
\* C5: right after a successful store of an archive with manifest id I and
\* version V, whatever the letter case of I, GetPackageFile(I, V) returns the
\* bytes that were uploaded and GetPackageEntry(I, V) returns an entry whose
\* id and version are I and V
C5_StoreThenFetch ==
    (ret.op = "StorePackage" /\ ret.created) =>
      \E f \in {GetPackageFile(packages, downloadCounts, disk.files,
                                ret.pkg.ID, ret.pkg.Version)},
         e \in {GetPackageEntry(packages, ret.pkg.ID, ret.pkg.Version)} :
         /\ f.err = "" /\ f.content = ret.pkg
         /\ e.err = ""
         /\ e.packages[e.match].ID = ret.pkg.ID
         /\ e.packages[e.match].Version = ret.pkg.Version

\* the archive of a catalog entry, and the successful fetches of it
ArchiveOf(p) == PackageDir(ToLower(p.ID), p.Version)
FetchesOf(p) == CountOf(fetches, ArchiveOf(p))

\* whether entry i is the only entry of its id (ignoring case)
OnlyVersion(pkgs, i) ==
    \A j \in 1..Len(pkgs) : EqualFold(pkgs[j].ID, pkgs[i].ID) => j = i

\* C6: after the N successful fetches of an entry's archive, and across the
\* feed queries and GetPackageEntry calls that follow, the entry's
\* VersionDownloadCount is N, whatever the letter case of its id; when it is
\* the only version of its id, the DownloadCount that GetPackageEntry and the
\* feed report for it is N as well
C6_DownloadCounts ==
    /\ ret.op \in {"GetPackageFile", "GetPackageFeedEntries", "GetPackageEntry"}
         => \A i \in 1..Len(packages) :
               packages[i].VersionDownloadCount = FetchesOf(packages[i])
    /\ (ret.op = "GetPackageEntry" /\ ret.err = "")
         => \A i \in 1..Len(packages) :
               (packages[i].ID = ret.entry.ID
                  /\ packages[i].Version = ret.entry.Version
                  /\ OnlyVersion(packages, i))
               => ret.entry.DownloadCount = FetchesOf(packages[i])
    /\ ret.op = "GetPackageFeedEntries"
         => \A i \in 1..Len(packages) :
               OnlyVersion(packages, i)
               => packages[i].DownloadCount = FetchesOf(packages[i])

\* C7: after a restart every catalog entry's VersionDownloadCount is the one
\* the entry had right before the restart
C7_RestartKeepsCounts ==
    ret.op = "Init" =>
      \A i \in 1..Len(packages), j \in 1..Len(ret.before) :
         (packages[i].ID = ret.before[j].ID
            /\ packages[i].Version = ret.before[j].Version)
         => packages[i].VersionDownloadCount
              = ret.before[j].VersionDownloadCount

(***************************************************************************)
(* Pagination.                                                             *)
(***************************************************************************)
\* the id/version tokens of the entries that match the filter of the run
Matching ==
    {Key(packages[i].ID, packages[i].Version) :
       i \in {j \in 1..Len(packages) : PassesFilter(packages[j], pager.id)}}

\* ceil(k / m) for m > 0
CeilDiv(k, m) == (k + m - 1) \div m

\* what the claim says of a run of feed queries over k matching entries with
\* max = pager.max: never more than ceil(k/max) calls, the run is over exactly
\* at call ceil(k/max), pages of max entries except the last, hasMore on every
\* page but the last, no entry twice and, once over, every matching entry
PagesAsClaimed(k) ==
    /\ pager.calls <= CeilDiv(k, pager.max)
    /\ pager.done <=> pager.calls = CeilDiv(k, pager.max)
    /\ \A c \in 1..pager.calls :
          /\ pager.sizes[c] = IF c < CeilDiv(k, pager.max) THEN pager.max
                               ELSE k - pager.max * (CeilDiv(k, pager.max) - 1)
          /\ pager.mores[c] = (c < CeilDiv(k, pager.max))
    /\ \A a, b \in 1..Len(pager.seen) : pager.seen[a] = pager.seen[b] => a = b
    /\ {pager.seen[a] : a \in 1..Len(pager.seen)} \subseteq Matching
    /\ pager.done => Len(pager.seen) = k

\* C8: over an unchanging catalog with K >= 1 entries matching the filter and
\* max = M > 0, the feed queries that start with the empty cursor and go on
\* with the id/version of the previous page's last entry end after ceil(K/M)
\* calls, return every matching entry exactly once, in pages of M entries
\* except a last page of K - M*(ceil(K/M)-1), with hasMore on every page but
\* the last
C8_Pagination ==
    (pager.active /\ pager.max > 0 /\ Cardinality(Matching) >= 1)
      => PagesAsClaimed(Cardinality(Matching))

\* C8 as written, also for K = 0
C8_PaginationAnyK ==
    (pager.active /\ pager.max > 0) => PagesAsClaimed(Cardinality(Matching))

\* a run of two pages of one entry each that is over
C8_Witness ==
    /\ pager.active /\ pager.done
    /\ pager.max = 1 /\ pager.calls = 2
    /\ pager.sizes = <<1, 1>> /\ pager.mores = <<TRUE, FALSE>>

(***************************************************************************)
(* Access.                                                                 *)
(***************************************************************************)
\* the keys of a configured list
KeysOf(list) == {list[i] : i \in 1..Len(list)}

\* the level the claim gives for a configuration and a presented key
LevelAsClaimed(c, key) ==
    IF KeysOf(c.ReadOnly) = {} /\ KeysOf(c.ReadWrite) = {}
    THEN "accessReadWrite"
    ELSE IF KeysOf(c.ReadOnly) # {}
    THEN IF key \in KeysOf(c.ReadWrite) THEN "accessReadWrite"
         ELSE IF key \in KeysOf(c.ReadOnly) THEN "accessReadOnly"
         ELSE "accessDenied"
    ELSE IF key \in KeysOf(c.ReadWrite) THEN "accessReadWrite"
         ELSE "accessReadOnly"

\* C9: the level GetAccessLevel resolves depends on the two configured key
\* lists and the presented key alone: read-write for every key when both
\* lists are empty; with read-only keys configured, read-write for a key of
\* the read-write list, else read-only for a key of the read-only list, else
\* denied; with only read-write keys configured, read-write for a key of the
\* list and read-only for every other key, never denied
C9_AccessLevel ==
    /\ \A key \in PresentedKeys :
          GetAccessLevel(cfg, key).level = LevelAsClaimed(cfg, key)
    /\ http.resolved => http.level = LevelAsClaimed(cfg, http.key)

\* a request with a key that is in both lists, resolved to read-write
C9_Witness ==
    /\ http.resolved
    /\ http.key \in KeysOf(cfg.ReadOnly) \cap KeysOf(cfg.ReadWrite)
    /\ http.level = "accessReadWrite"

\* the levels that may read
MayRead == {"accessReadOnly", "accessReadWrite"}

\* C10: the handler calls StorePackage only for a request whose key it
\* resolved to read-write, and fetches a package file, queries the feed,
\* looks up an entry or reads a static file under the API routes only for a
\* request whose key it resolved to read-only or read-write; the static
\* files of the web directory, asked for outside the API routes, are read
\* without resolving the key
C10_AccessBeforeUse ==
    /\ http.call = "StorePackage"
         => http.resolved /\ http.level = "accessReadWrite"
    /\ http.call \in {"GetPackageFile", "GetPackageFeedEntries",
                      "GetPackageEntry"}
         => http.resolved /\ http.level \in MayRead
    /\ (http.call = "GetFile" /\ http.route # "www")
         => http.resolved /\ http.level \in MayRead
    /\ (http.call = "GetFile" /\ http.route = "www") => ~http.resolved

\* C10 as written: every static-file read, too, follows a resolution of the
\* request's key to read-only or read-write
C10_EveryReadResolved ==
    /\ http.call = "StorePackage"
         => http.resolved /\ http.level = "accessReadWrite"
    /\ http.call \in {"GetPackageFile", "GetPackageFeedEntries",
                      "GetPackageEntry", "GetFile"}
         => http.resolved /\ http.level \in MayRead

\* an upload stored for a key of the read-write list on a server that has
\* keys configured
C10_Witness ==
    /\ http.call = "StorePackage" /\ http.status = 201
    /\ cfg.ReadWrite # <<>> /\ http.key \in KeysOf(cfg.ReadWrite)
    /\ ret.op = "StorePackage" /\ ret.created

(***************************************************************************)
(* The version comparator.                                                 *)
(***************************************************************************)
\* a component read as a non-negative integer: its value when it is a
\* non-empty run of decimal digits, 0 when it is anything else
ReferenceComponent(c) ==
    IF c # <<>> /\ \A i \in 1..Len(c) : IsDigit(c[i])
    THEN DigitRun(c, 0, 0).value ELSE 0

\* the reference comparator: the components between the dots, the shorter
\* list padded with zeros, the sign of the first difference
ReferenceCompare(v1, v2) ==
    LET a == SplitDot(v1, <<>>)
        b == SplitDot(v2, <<>>)
        n == IF Len(a) > Len(b) THEN Len(a) ELSE Len(b)
        At(l, i) == IF i <= Len(l) THEN ReferenceComponent(l[i]) ELSE 0
        diff == {i \in 1..n : At(a, i) # At(b, i)}
        first == CHOOSE i \in diff : \A j \in diff : i <= j
    IN  IF diff = {} THEN 0
        ELSE IF At(a, first) < At(b, first) THEN -1 ELSE 1

\* C11: compareVersions(v1, v2) equals the reference comparator for all
\* version strings: every component that is not a non-negative integer
\* counts as 0, the shorter list is padded with zeros, and the result is the
\* sign of the first differing component, 0 if none differs
C11_CompareIsReference ==
    ret.op = "compareVersions"
      => ret.result = ReferenceCompare(ret.v1, ret.v2)

(***************************************************************************)
(* Lookup and the pages of the feed.                                       *)
(***************************************************************************)
\* C12: GetPackageEntry(id, version) returns an entry if and only if the
\* catalog holds an entry whose id equals id ignoring letter case and whose
\* version is the very string asked for, and the entry returned is such an
\* entry of the catalog; otherwise it returns the not-found error and
\* changes no entry
C12_GetEntry ==
    [][(ret = NoCall /\ ret'.op = "GetPackageEntry") =>
         LET held == {i \in 1..Len(packages) :
                        /\ EqualFold(packages[i].ID, ret'.id)
                        /\ packages[i].Version = ret'.ver}
         IN  /\ (ret'.err = "") <=> (held # {})
             /\ ret'.err = "" =>
                  /\ EqualFold(ret'.entry.ID, ret'.id)
                  /\ ret'.entry.Version = ret'.ver
                  /\ \E i \in held :
                        /\ packages'[i] = ret'.entry
                        /\ packages[i].ID = ret'.entry.ID
             /\ ret'.err # "" =>
                  /\ ret'.err = "package not found"
                  /\ packages' = packages]_vars

\* a lookup by an id in the other letter case that returned the entry
C12_Witness ==
    /\ ret.op = "GetPackageEntry" /\ ret.err = ""
    /\ ret.entry.ID # ret.id
    /\ ret.entry.Version = ret.ver

\* where a page starts in the filtered, sorted result: after the first entry
\* whose id/version is the cursor, at the start when the cursor is empty or
\* names no entry
StartAsClaimed(result, startAfter) ==
    LET hits == {j \in 1..Len(result) :
                   Key(result[j].ID, result[j].Version) = startAfter}
    IN  IF startAfter = Empty \/ hits = {} THEN 0
        ELSE CHOOSE i \in hits : \A j \in hits : i <= j

\* C13: in a feed query whose cursor is non-empty and is the id/version of
\* an entry of the filtered, sorted result, the page starts at the entry
\* right after the first such entry; with an empty cursor, or one that names
\* no entry, the page starts at the first entry of the result; no error is
\* returned (for the queries whose max is not negative)
C13_PageStart ==
    (ret.op = "GetPackageFeedEntries" /\ ret.max >= 0) =>
      LET s == StartAsClaimed(ret.result, ret.startAfter)
      IN  /\ ~ret.panics
          /\ Len(ret.page) > 0 => ret.page[1] = ret.result[s + 1]
          /\ (ret.max > 0 /\ s < Len(ret.result)) => Len(ret.page) > 0

\* a page that starts at the second entry, after the cursor's entry
C13_Witness ==
    /\ ret.op = "GetPackageFeedEntries"
    /\ ret.startAfter # Empty
    /\ Len(ret.result) = 2 /\ Len(ret.page) = 1
    /\ Key(ret.result[1].ID, ret.result[1].Version) = ret.startAfter
    /\ ret.page[1] = ret.result[2]

\* C14: a feed query with max = M >= 0 and R result entries from the start
\* position of its page on returns a page of exactly min(M, R) entries, the
\* ones that follow the start position in result order, and hasMore is true
\* if and only if R > M
C14_PageSize ==
    (ret.op = "GetPackageFeedEntries" /\ ret.max >= 0) =>
      LET s == StartAsClaimed(ret.result, ret.startAfter)
          R == Len(ret.result) - s
      IN  /\ Len(ret.page) = IF ret.max < R THEN ret.max ELSE R
          /\ \A k \in 1..Len(ret.page) : ret.page[k] = ret.result[s + k]
          /\ ret.hasMore <=> (R > ret.max)

\* a page that ends the result exactly: M = R = 1 after the cursor, no more
C14_Witness ==
    /\ ret.op = "GetPackageFeedEntries"
    /\ ret.startAfter # Empty /\ ret.max = 1
    /\ Len(ret.result) = 2 /\ Len(ret.page) = 1
    /\ ret.page[1] = ret.result[2]
    /\ Key(ret.result[1].ID, ret.result[1].Version) = ret.startAfter
    /\ ~ret.hasMore

(***************************************************************************)
(* Upload errors.                                                          *)
(***************************************************************************)
\* C15: StorePackage returns an error whose text contains "already exists"
\* exactly when the archive file was there at the existence check, and the
\* upload handler answers 409 Conflict for exactly those uploads, 500
\* Internal Server Error for every other store failure, and 201 Created
\* when the store succeeds
C15_UploadStatus ==
    (http.call = "StorePackage" /\ ret.op = "StorePackage") =>
      /\ (ret.err # "" /\ ErrorContainsAlreadyExists(ret.err, ret.detail))
            <=> (ret.before # NoFile)
      /\ http.status = IF ret.before # NoFile THEN 409
                       ELSE IF ret.err # "" THEN 500
                       ELSE 201

(***************************************************************************)
(* What a fetch, the startup scan and a remove change.                     *)
(***************************************************************************)
\* C16: GetPackageFile(id, version) on an absent archive returns the
\* not-found error and leaves the counter table and the catalog unchanged;
\* on success it raises the counter of the key id/version by exactly one,
\* sets the VersionDownloadCount of the entry matching id and version to the
\* new value of that counter, and leaves every other counter, every other
\* entry and the membership and order of the catalog unchanged
C16_FetchFrame ==
    [][(ret = NoCall /\ ret'.op = "GetPackageFile") =>
         LET key == Key(ret'.id, ret'.ver)
             hits == {i \in 1..Len(packages) :
                        /\ EqualFold(packages[i].ID, ret'.id)
                        /\ packages[i].Version = ret'.ver}
         IN  /\ PackageDir(ToLower(ret'.id), ret'.ver) \notin DOMAIN disk.files
                  => ret'.err = "file not found"
             /\ ret'.err # "" =>
                  /\ ret'.err = "file not found"
                  /\ downloadCounts' = downloadCounts
                  /\ packages' = packages
             /\ ret'.err = "" =>
                  /\ key \in DOMAIN downloadCounts'
                  /\ downloadCounts'[key] = CountOf(downloadCounts, key) + 1
                  /\ DOMAIN downloadCounts' = DOMAIN downloadCounts \cup {key}
                  /\ \A k \in DOMAIN downloadCounts :
                        k # key => downloadCounts'[k] = downloadCounts[k]
                  /\ Len(packages') = Len(packages)
                  /\ \A i \in 1..Len(packages) :
                        packages'[i] =
                          IF i \in hits
                          THEN [packages[i] EXCEPT !.VersionDownloadCount =
                                                     downloadCounts'[key]]
                          ELSE packages[i]]_vars

\* a fetch that counted on one of two versions of an id and not on the other
C16_Witness ==
    /\ ret.op = "GetPackageFile" /\ ret.err = ""
    /\ Len(packages) = 2
    /\ EqualFold(packages[1].ID, packages[2].ID)
    /\ \E i, j \in 1..2 :
          /\ packages[i].Version = ret.ver
          /\ packages[i].VersionDownloadCount = 1
          /\ packages[j].VersionDownloadCount = 0

\* C17: after the startup scan the catalog holds an entry for every
\* directory rootDir/<id>/<version> with a valid archive in it, however many
\* other version directories, of the same id or of others, earlier or later
\* in scan order, lack their archive or hold one that does not load
C17_ScanFindsAll ==
    ret.op = "Init" =>
      \A f \in DOMAIN disk.files :
         f \notin ret.failAt =>
           \E i \in 1..Len(packages) :
              /\ packages[i].ID = disk.files[f].bytes.ID
              /\ packages[i].Version = disk.files[f].bytes.Version

\* two entries that differ at most in their latest flags
SameButFlags(p, q) ==
    [p EXCEPT !.IsLatestVersion = FALSE, !.IsAbsoluteLatestVersion = FALSE]
      = [q EXCEPT !.IsLatestVersion = FALSE, !.IsAbsoluteLatestVersion = FALSE]

\* C18: RemovePackage(fn) with a filename of no catalog entry leaves the
\* catalog unchanged: same entries, same order, same flags; with a filename
\* of an entry it removes exactly one entry, one of that filename, and keeps
\* all other entries in their previous relative order
C18_RemoveFrame ==
    [][(ret = NoCall /\ ret'.op = "RemovePackage") =>
         LET hits == {i \in 1..Len(packages) :
                        Filename(packages[i]) = ret'.fn}
         IN  /\ hits = {} => packages' = packages
             /\ hits # {} =>
                  \E i \in hits :
                     /\ Len(packages') = Len(packages) - 1
                     /\ \A j \in 1..Len(packages') :
                           SameButFlags(packages'[j],
                                        packages[IF j < i THEN j ELSE j + 1])
       ]_vars

\* C19: after RemovePackage of an entry that was stored with payload files,
\* the directory rootDir/<lowercased-id>/<version>/content is gone
C19_RemoveDeletesContent ==
    (ret.op = "RemovePackage" /\ ret.removed # 0) =>
      \A id \in PackageIDs, v \in Versions :
         id \o Dot \o v = ret.fn
           => PackageDir(ToLower(id), v) \notin disk.content

\* the two path segments after "nupkg/" in a Content.Src
SrcSegments(src) ==
    LET rest == SubSeq(src, Len(NupkgSlash) + 1, Len(src))
        cut == CHOOSE k \in 1..Len(rest) :
                 rest[k] = 47 /\ \A j \in 1..(k - 1) : rest[j] # 47
    IN  [id |-> SubSeq(rest, 1, cut - 1),
         ver |-> SubSeq(rest, cut + 1, Len(rest))]

\* C20: for every catalog entry, GetPackageFile called with the id and the
\* version that the entry's Content.Src names succeeds and returns the bytes
\* of the entry's archive, also when the manifest id has upper-case letters
C20_ContentSrcResolves ==
    \A i \in 1..Len(packages) :
       \E f \in {GetPackageFile(packages, downloadCounts, disk.files,
                                 SrcSegments(packages[i].Src).id,
                                 SrcSegments(packages[i].Src).ver)} :
          f.err = "" /\ f.content = packages[i].Hash

(***************************************************************************)
(* Latest flags after every operation.                                     *)
(***************************************************************************)
\* C21: once a load, a store or a remove has returned, with success or with
\* an error, the latest flags of all catalog entries are the ones a fresh
\* RecalculateLatestVersions over the current catalog computes
C21_FlagsNeverStale ==
    ret.op \in {"StorePackage", "RemovePackage", "Init"}
      => packages = RecalculateLatestVersions(packages)

(***************************************************************************)
(* The catalog lock.                                                       *)
(***************************************************************************)
\* the sequence of the catalog and its latest flags
Structure(pkgs) ==
    [i \in 1..Len(pkgs) |->
       <<pkgs[i].ID, pkgs[i].Version, pkgs[i].IsLatestVersion,
         pkgs[i].IsAbsoluteLatestVersion>>]

\* a goroutine between the first and the last statement of an insert, a
\* delete or a recalculation
InsideMutation(g) ==
    \/ calls[g].op = "LoadPackage" /\ calls[g].pc \in {"copy", "assign", "loaded"}
    \/ calls[g].op = "RemovePackage" /\ calls[g].pc \in {"delete", "removed"}

\* C22: every step that changes the sequence of the catalog or rewrites
\* latest flags is taken by a goroutine that holds fs.lock, and no two
\* goroutines are inside such steps at the same time
C22_MutationsLocked ==
    [][/\ Structure(packages') # Structure(packages)
          => \E g \in Goroutines : lock = g /\ calls'[g] # calls[g]
       /\ \A g, h \in Goroutines :
             (InsideMutation(g) /\ InsideMutation(h)) => g = h]_vars

\* a catalog with no placeholder entry, no entry twice, sorted by filename
Settled(pkgs) ==
    /\ \A i \in 1..Len(pkgs) : pkgs[i].ID # Empty
    /\ \A i, j \in 1..Len(pkgs) :
          Filename(pkgs[i]) = Filename(pkgs[j]) => i = j
    /\ \A i \in 1..(Len(pkgs) - 1) :
          ~StrLess(Filename(pkgs[i + 1]), Filename(pkgs[i]))

\* C23: in every interleaving of store, remove, get and feed calls, the
\* catalog that a recalculation, a GetPackageEntry or a feed query reads is
\* never one with an insert or a delete part-way done: it holds no empty
\* placeholder entry, no entry duplicated by the shift, and it is sorted
C23_NoPartialRead ==
    \A g \in Goroutines : Settled(calls[g].seen)

(***************************************************************************)
(* The download counters under concurrent fetches.                         *)
(***************************************************************************)
\* no GetPackageFile call is between reading the archive and returning
NoFetchInProgress == Fetching = {}

\* C24: the increment of a counter is atomic: when the concurrent fetches of
\* "a" 1.9 have all returned, the counter is higher by exactly the number of
\* successful fetches, and a feed query never reads the table while another
\* goroutine is between the read and the write of an increment
C24_AtomicIncrement ==
    [][/\ NoFetchInProgress =>
            CountOf(downloadCounts, Key(IdLowerA, V1_9))
               = CountOf(fetches, PackageDir(IdLowerA, V1_9))
       /\ \A g \in Goroutines :
            (calls[g].pc = "locked" /\ calls'[g].pc = "done")
               => \A h \in Goroutines : calls[h].pc # "loaded"]_vars

\* C25: whenever no fetch is in progress (and no write of downloads.json has
\* failed), downloads.json holds the in-memory table, whatever the
\* interleaving of the fetches was
C25_WriteThrough ==
    NoFetchInProgress => countsFile = SaveDownloadCounts(downloadCounts)

(***************************************************************************)
(* The next link of the package list.                                      *)
(***************************************************************************)
\* C26: in the package-list handler the startAfter derived from the
\* $skiptoken of a next link is the id/version token of the entry the link
\* was built from, and the request of that link is answered with the page
\* that begins immediately after that entry
C26_NextLinkContinues ==
    (http.call = "GetPackageFeedEntries" /\ ret.op = "GetPackageFeedEntries")
       => \A i \in 1..Len(ret.result) :
            ret.startAfter = SkipTokenToStartAfter(SkipToken(ret.result[i]))
               => /\ ret.startAfter
                       = Key(ret.result[i].ID, ret.result[i].Version)
                  /\ ret.page = SubSeq(ret.result, i + 1, Len(ret.result))

(***************************************************************************)
(* The id filter of the feed.                                              *)
(***************************************************************************)
\* C27: the feed's id filter matches ids as GetPackageEntry does, ignoring
\* letter case: a feed query for an id returns every catalog entry whose id
\* equals it up to case, and no other
C27_FeedFilterFoldsCase ==
    (ret.op = "GetPackageFeedEntries" /\ ret.id # Empty)
       => \A i \in 1..Len(packages) :
            EqualFold(packages[i].ID, ret.id)
               <=> \E j \in 1..Len(ret.result) :
                      /\ ret.result[j].ID = packages[i].ID
                      /\ ret.result[j].Version = packages[i].Version

(***************************************************************************)
(* Latest flags and the numeric comparator.                                *)
(***************************************************************************)
\* entry i holds version 1.9 and entry j version 1.10 of one id
HoldsBoth(pkgs, i, j) ==
    /\ pkgs[i].ID = pkgs[j].ID
    /\ pkgs[i].Version = V1_9 /\ pkgs[j].Version = V1_10

\* C28: latest flags are decided by the numeric comparator alone: whenever
\* the catalog holds versions 1.9 and 1.10 of one id, whatever the order of
\* the two stores and whatever calls followed, 1.10 is flagged latest and 1.9
\* is not
C28_NumericLatest ==
    \A i, j \in 1..Len(packages) :
       HoldsBoth(packages, i, j)
          => /\ packages[j].IsLatestVersion /\ ~packages[i].IsLatestVersion
             /\ packages[j].IsAbsoluteLatestVersion
             /\ ~packages[i].IsAbsoluteLatestVersion

\* C29: ids are case-insensitive for latest flags: two catalog entries whose
\* ids are equal up to letter case and whose versions differ numerically are
\* never both flagged latest, in the catalog a recalculation leaves
C29_LatestFoldsCase ==
    ret.op \in {"StorePackage", "RemovePackage", "Init"}
       /\ packages = RecalculateLatestVersions(packages)
       => \A i, j \in 1..Len(packages) :
            (/\ EqualFold(packages[i].ID, packages[j].ID)
             /\ compareVersions(packages[i].Version, packages[j].Version) # 0)
               => ~(packages[i].IsLatestVersion /\ packages[j].IsLatestVersion)

(***************************************************************************)
(* The order of a feed result.                                             *)
(***************************************************************************)
\* C30: the result of a feed query is ordered by published time, latest
\* first; the page is a contiguous slice of the result; and the query leaves
\* the order and the membership of the catalog as they were
C30_FeedOrder ==
    [][(ret = NoCall /\ ret'.op = "GetPackageFeedEntries")
         => /\ \A i, j \in 1..Len(ret'.result) :
                 ret'.result[i].Published > ret'.result[j].Published => i < j
            /\ \E s \in 0..Len(ret'.result) :
                 /\ s + Len(ret'.page) <= Len(ret'.result)
                 /\ ret'.page = SubSeq(ret'.result, s + 1, s + Len(ret'.page))
            /\ Tokens(packages') = Tokens(packages)]_vars

\* a feed query returned the second of two entries, and the result is in an
\* order that is not the catalog's
C30_Witness ==
    /\ ret.op = "GetPackageFeedEntries"
    /\ Len(ret.result) = 2 /\ Len(ret.page) = 1
    /\ ret.page[1] = ret.result[2]
    /\ ret.result[1].Published > ret.result[2].Published
    /\ Tokens(ret.result) # Tokens(packages)

(***************************************************************************)
(* The aggregate count a lookup writes.                                    *)
(***************************************************************************)
\* the sum of versionDownloadCount over the entries at the indices of S
RECURSIVE VersionCountSum(_, _)
VersionCountSum(pkgs, S) ==
    IF S = {} THEN 0
    ELSE LET i == CHOOSE x \in S : TRUE
         IN  pkgs[i].VersionDownloadCount + VersionCountSum(pkgs, S \ {i})

\* the indices of the entries whose id is id up to letter case
SameIdFolded(pkgs, id) == {i \in 1..Len(pkgs) : EqualFold(pkgs[i].ID, id)}

\* C31: a successful GetPackageEntry(id, version) sets the downloadCount of
\* the entry it returns to the sum of versionDownloadCount over all catalog
\* entries whose id equals id ignoring case, and changes nothing else: no
\* other field of that entry, no other entry, no latest flag, and no value
\* of the counter table
C31_GetEntryFrame ==
    [][(ret = NoCall /\ ret'.op = "GetPackageEntry" /\ ret'.err = "") =>
         /\ \E i \in 1..Len(packages) :
               /\ packages' =
                    [packages EXCEPT ![i].DownloadCount =
                       VersionCountSum(packages,
                                       SameIdFolded(packages, ret'.id))]
               /\ ret'.entry = packages'[i]
         /\ downloadCounts' = downloadCounts
         /\ countsFile' = countsFile]_vars

\* a lookup returned an entry whose aggregate is the sum over two entries
\* whose ids differ in letter case
C31_Witness ==
    /\ ret.op = "GetPackageEntry" /\ ret.err = ""
    /\ ret.entry.DownloadCount = 2
    /\ \E i, j \in 1..Len(packages) :
          /\ packages[i].ID # packages[j].ID
          /\ packages[i].VersionDownloadCount = 1
          /\ packages[j].VersionDownloadCount = 1

(***************************************************************************)
(* The counts a feed query writes.                                         *)
(***************************************************************************)
\* the count the table holds for an entry's id and version, the id taken
\* up to letter case; 0 when the table has none
RECURSIVE StoredCount(_, _, _)
StoredCount(counts, p, keys) ==
    IF keys = {} THEN 0
    ELSE LET k == CHOOSE x \in keys : TRUE
         IN  (IF EqualFold(k, Key(p.ID, p.Version)) THEN counts[k] ELSE 0)
               + StoredCount(counts, p, keys \ {k})

\* the sum of the stored counts of the entries at the indices of S
RECURSIVE StoredCountSum(_, _, _)
StoredCountSum(pkgs, counts, S) ==
    IF S = {} THEN 0
    ELSE LET i == CHOOSE x \in S : TRUE
         IN  StoredCount(counts, pkgs[i], DOMAIN counts)
               + StoredCountSum(pkgs, counts, S \ {i})

\* C32: after a feed query has returned, every entry of the catalog, whether
\* or not it passed the id filter, has as versionDownloadCount the count the
\* table holds for its id and version (0 if none), and as downloadCount the
\* sum of the table's counts over the catalog entries that share its id
C32_FeedRefreshesCounts ==
    ret.op = "GetPackageFeedEntries" =>
       \A i \in 1..Len(packages) :
          /\ packages[i].VersionDownloadCount
               = StoredCount(downloadCounts, packages[i], DOMAIN downloadCounts)
          /\ packages[i].DownloadCount
               = StoredCountSum(packages, downloadCounts,
                                SameIdFolded(packages, packages[i].ID))

(***************************************************************************)
(* The statuses of refused and unanswerable requests.                      *)
(***************************************************************************)
\* C33: a request on a restricted API route whose key resolves to the
\* Denied tier is answered with 403 Forbidden, not with 500, and no feed,
\* file or upload operation runs for it
C33_DeniedIsForbidden ==
    (http.resolved /\ http.level = "accessDenied")
       => /\ http.status = 403
          /\ http.call = "none"
          /\ ret = NoCall

\* C34: a request Packages(Id=..,Version=..) for an id and version that
\* GetPackageEntry does not find is answered with 404 Not Found, not with an
\* internal-error status
C34_MissingEntryIsNotFound ==
    (http.call = "GetPackageEntry" /\ ret.op = "GetPackageEntry"
       /\ ret.err = "package not found")
       => http.status = 404

(***************************************************************************)
(* Panics.                                                                 *)
(***************************************************************************)
\* C35: the feed query returns normally, with a page, a boolean and no
\* error, for every catalog, id filter, cursor (empty, stale, or naming the
\* last entry) and max, zero and negative values of max included: it never
\* panics
C35_FeedNeverPanics ==
    ret.op = "GetPackageFeedEntries" => ~ret.panics

(***************************************************************************)
(* The archive root and the catalog.                                       *)
(***************************************************************************)
\* the set of id/version tokens of a catalog
TokenSet(pkgs) == {Key(pkgs[i].ID, pkgs[i].Version) : i \in 1..Len(pkgs)}

\* C36: after stores that wrote their archives and removes, a restart that
\* reads the root directory without error yields a catalog with exactly the
\* ids and versions the catalog held just before it, so that a removed entry
\* does not reappear; and a store is rejected as already existing only when
\* the catalog holds an entry for the uploaded id and version, so that a
\* removed id and version can be stored again
C36_RootIsTruth ==
    /\ (ret.op = "Init" /\ ret.failAt = {}
           /\ disk.dirs \subseteq DOMAIN disk.files)
          => TokenSet(packages) = TokenSet(ret.before)
    /\ (ret.op = "StorePackage" /\ ContainsAlreadyExists(ret.err))
          => ret.held >= 1

(***************************************************************************)
(* StorePackage and the catalog.                                           *)
(***************************************************************************)
\* C37: StorePackage is all-or-nothing for the catalog: when it returns an
\* error the catalog holds exactly the entries it held before the call, and
\* when it returns created = true the catalog holds exactly one more entry,
\* the one of the uploaded id and version
C37_StoreAllOrNothing ==
    [][(ret = NoCall /\ ret'.op = "StorePackage") =>
         /\ ret'.err # "" => Tokens(packages') = Tokens(packages)
         /\ ret'.created =>
              /\ Len(packages') = Len(packages) + 1
              /\ TokenSet(packages')
                   = TokenSet(packages)
                       \cup {Key(ret'.pkg.ID, ret'.pkg.Version)}]_vars
====
